---- MODULE Spec2Model ----
(***************************************************************************)
(* Model of the carapace shell: the command-line processor                 *)
(* (Prompt::parse_command), the REPL loop (repl / command::execute) and    *)
(* the builtin commands, over a session context (environment, shell        *)
(* options, directory stack, known-command cache).                         *)
(*                                                                         *)
(* Strings of the program are TLA+ strings; the text algorithms walk them  *)
(* character by character with Len, SubSeq and \o.                         *)
(***************************************************************************)
EXTENDS Integers, Sequences, FiniteSets, TLC

(***************************************************************************)
(* Bounds of the model.                                                    *)
(***************************************************************************)
\* Number of input events (lines, EOF, ^C, read errors) of one session.
MaxLines == 3

(***************************************************************************)
(* Characters and elementary string functions.                             *)
(***************************************************************************)
Ch(s, i) == SubSeq(s, i, i)

Digits == {"0", "1", "2", "3", "4", "5", "6", "7", "8", "9"}

Letters ==
    {"a", "b", "c", "d", "e", "f", "g", "h", "i", "j", "k", "l", "m",
     "n", "o", "p", "q", "r", "s", "t", "u", "v", "w", "x", "y", "z",
     "A", "B", "C", "D", "E", "F", "G", "H", "I", "J", "K", "L", "M",
     "N", "O", "P", "Q", "R", "S", "T", "U", "V", "W", "X", "Y", "Z"}

\* char::is_whitespace, restricted to the characters an input line can hold.
Whitespace == {" ", "\t", "\n"}

\* The character class of ENV_VAR_REGEX: [\w\?\-#!\$_@\*]
VarChars == Letters \cup Digits \cup {"_", "?", "-", "#", "!", "$", "@", "*"}

Contains(s, c) == \E i \in 1..Len(s) : Ch(s, i) = c

\* str::find(c): index of the first occurrence of c, 0 when there is none.
Find(s, c) ==
    IF Contains(s, c)
    THEN CHOOSE i \in 1..Len(s) : Ch(s, i) = c /\ \A j \in 1..(i - 1) : Ch(s, j) # c
    ELSE 0

StartsWith(s, p) == Len(p) <= Len(s) /\ SubSeq(s, 1, Len(p)) = p

MatchesAt(s, i, p) == i + Len(p) - 1 <= Len(s) /\ SubSeq(s, i, i + Len(p) - 1) = p

\* str::contains(p) for a pattern string p.
ContainsStr(s, p) == \E i \in 1..(Len(s) + 1) : MatchesAt(s, i, p)

RECURSIVE StrReplaceFrom(_, _, _, _)
StrReplaceFrom(s, i, pat, with) ==
    IF i > Len(s) THEN ""
    ELSE IF MatchesAt(s, i, pat)
         THEN with \o StrReplaceFrom(s, i + Len(pat), pat, with)
         ELSE Ch(s, i) \o StrReplaceFrom(s, i + 1, pat, with)

\* str::replace(pat, with) for a non-empty pattern: every non-overlapping
\* occurrence, left to right.
StrReplace(s, pat, with) == StrReplaceFrom(s, 1, pat, with)

RECURSIVE TrimStart(_)
TrimStart(s) ==
    IF Len(s) > 0 /\ Ch(s, 1) \in Whitespace THEN TrimStart(SubSeq(s, 2, Len(s))) ELSE s

RECURSIVE TrimEnd(_)
TrimEnd(s) ==
    IF Len(s) > 0 /\ Ch(s, Len(s)) \in Whitespace
    THEN TrimEnd(SubSeq(s, 1, Len(s) - 1))
    ELSE s

\* str::trim
Trim(s) == TrimEnd(TrimStart(s))

RECURSIVE SplitWsFrom(_, _, _)
SplitWsFrom(s, i, cur) ==
    IF i > Len(s) THEN (IF cur = "" THEN <<>> ELSE <<cur>>)
    ELSE IF Ch(s, i) \in Whitespace
         THEN (IF cur = "" THEN <<>> ELSE <<cur>>) \o SplitWsFrom(s, i + 1, "")
         ELSE SplitWsFrom(s, i + 1, cur \o Ch(s, i))

\* str::split_whitespace, collected into a vector of words.
SplitWhitespace(s) == SplitWsFrom(s, 1, "")

RECURSIVE Join(_, _)
\* [String]::join(sep)
Join(words, sep) ==
    IF Len(words) = 0 THEN ""
    ELSE IF Len(words) = 1 THEN words[1]
    ELSE words[1] \o sep \o Join(Tail(words), sep)

(***************************************************************************)
(* Integers and their decimal text.                                        *)
(***************************************************************************)
I32Max == 2147483647
I32Min == (0 - I32Max) - 1

DigitVal(c) ==
    CASE c = "0" -> 0 [] c = "1" -> 1 [] c = "2" -> 2 [] c = "3" -> 3 [] c = "4" -> 4
      [] c = "5" -> 5 [] c = "6" -> 6 [] c = "7" -> 7 [] c = "8" -> 8 [] c = "9" -> 9

DigitChar(d) ==
    CASE d = 0 -> "0" [] d = 1 -> "1" [] d = 2 -> "2" [] d = 3 -> "3" [] d = 4 -> "4"
      [] d = 5 -> "5" [] d = 6 -> "6" [] d = 7 -> "7" [] d = 8 -> "8" [] d = 9 -> "9"

RECURSIVE NatToString(_)
NatToString(n) ==
    IF n < 10 THEN DigitChar(n) ELSE NatToString(n \div 10) \o DigitChar(n % 10)

\* i32::to_string
I32ToString(n) ==
    IF n = I32Min THEN "-2147483648"
    ELSE IF n < 0 THEN "-" \o NatToString(0 - n)
    ELSE NatToString(n)

RECURSIVE DigitsValue(_, _)
\* The value of a run of digits, or -1 when it exceeds I32Max.
DigitsValue(s, acc) ==
    IF Len(s) = 0 THEN acc
    ELSE LET d == DigitVal(Ch(s, 1)) IN
         IF acc > (I32Max - d) \div 10 THEN -1
         ELSE DigitsValue(SubSeq(s, 2, Len(s)), acc * 10 + d)

AllDigits(s) == Len(s) > 0 /\ \A i \in 1..Len(s) : Ch(s, i) \in Digits

\* str::parse::<i32>(): an optional sign, then at least one digit, within the
\* range of i32.  The result is [ok |-> TRUE, val |-> n] or [ok |-> FALSE].
ParseI32(s) ==
    LET neg  == Len(s) > 0 /\ Ch(s, 1) = "-"
        sign == Len(s) > 0 /\ Ch(s, 1) \in {"-", "+"}
        body == IF sign THEN SubSeq(s, 2, Len(s)) ELSE s
        mag  == DigitsValue(body, 0)
    IN  IF ~AllDigits(body) THEN [ok |-> FALSE, val |-> 0]
        ELSE IF neg /\ body = "2147483648" THEN [ok |-> TRUE, val |-> I32Min]
        ELSE IF mag < 0 THEN [ok |-> FALSE, val |-> 0]
        ELSE [ok |-> TRUE, val |-> IF neg THEN 0 - mag ELSE mag]

(***************************************************************************)
(* Environment store: a function from keys to values.                      *)
(***************************************************************************)
\* HashMap::insert
EnvInsert(e, k, v) == [x \in DOMAIN e \cup {k} |-> IF x = k THEN v ELSE e[x]]

\* HashMap::remove
EnvRemove(e, k) == [x \in DOMAIN e \ {k} |-> e[x]]

\* The end of the ENV_VAR_REGEX match that starts at the "$" at position i:
\* the index of the last character of the greedy run [\w\?\-#!\$_@\*]*.
RECURSIVE VarRunEnd(_, _)
VarRunEnd(s, j) ==
    IF j + 1 <= Len(s) /\ Ch(s, j + 1) \in VarChars THEN VarRunEnd(s, j + 1) ELSE j

RECURSIVE BareReplaceFrom(_, _, _, _)
BareReplaceFrom(s, i, lookfor, v) ==
    IF i > Len(s) THEN ""
    ELSE IF Ch(s, i) = "$"
         THEN LET j == VarRunEnd(s, i)
                  m == SubSeq(s, i, j)
              IN  (IF m = lookfor THEN v ELSE m) \o BareReplaceFrom(s, j + 1, lookfor, v)
         ELSE Ch(s, i) \o BareReplaceFrom(s, i + 1, lookfor, v)

\* One iteration of the loop of Env::replace_vars, for the entry (k, v).
ReplaceVarsStep(res, k, v) ==
    BareReplaceFrom(StrReplace(res, "${" \o k \o "}", v), 1, "$" \o k, v)

RECURSIVE ReplaceVarsOrd(_, _, _)
\* Env::replace_vars when the map is iterated in the order ord.
ReplaceVarsOrd(res, e, ord) ==
    IF Len(ord) = 0 \/ ~Contains(res, "$") THEN res
    ELSE ReplaceVarsOrd(ReplaceVarsStep(res, ord[1], e[ord[1]]), e, Tail(ord))

RECURSIVE Orders(_)
\* The iteration orders a HashMap with the key set S can have.
Orders(S) ==
    IF S = {} THEN {<<>>}
    ELSE UNION {{<<k>> \o o : o \in Orders(S \ {k})} : k \in S}

RECURSIVE Concat(_)
Concat(texts) == IF texts = <<>> THEN "" ELSE texts[1] \o Concat(Tail(texts))

RECURSIVE ValuesText(_, _)
ValuesText(e, keys) ==
    IF keys = {} THEN ""
    ELSE LET k == CHOOSE x \in keys : TRUE IN e[k] \o ValuesText(e, keys \ {k})

\* The keys whose place in the iteration order can matter for the texts: the
\* loop only ever holds characters of the texts and of the values, so a key
\* with a character that occurs in none of them is never matched, and without
\* a "$" nothing is.
RelevantKeys(texts, e) ==
    LET pool == Concat(texts) \o ValuesText(e, DOMAIN e) IN
    IF ~Contains(Concat(texts), "$") THEN {}
    ELSE {k \in DOMAIN e : \A i \in 1..Len(k) : Contains(pool, Ch(k, i))}

\* The iteration orders of the map, up to the keys that cannot matter.
OrdersFor(texts, e) == Orders(RelevantKeys(texts, e))

(***************************************************************************)
(* shlex::split as called by parse_command: words separated by blanks,     *)
(* single and double quotes, backslash escapes and "#" comments.           *)
(***************************************************************************)
\* The characters a backslash escapes inside double quotes (the back quote,
\* which no modelled line contains, is the fourth one in shlex).
DqEscapable == {"$", "\"", "\\"}

RECURSIVE Shlex(_, _, _, _, _)
\* st: "skip" between words, "word" inside a word, "dq" / "sq" inside a quoted
\* group, "comment" after a "#" that starts a word.
Shlex(s, i, st, cur, out) ==
    IF i > Len(s)
    THEN CASE st = "skip"    -> [ok |-> TRUE, args |-> out]
           [] st = "comment" -> [ok |-> TRUE, args |-> out]
           [] st = "word"    -> [ok |-> TRUE, args |-> Append(out, cur)]
           [] OTHER          -> [ok |-> FALSE, args |-> <<>>]
    ELSE LET c == Ch(s, i) IN
         CASE st = "skip" ->
                IF c \in Whitespace THEN Shlex(s, i + 1, "skip", "", out)
                ELSE IF c = "#" THEN Shlex(s, i + 1, "comment", "", out)
                ELSE Shlex(s, i, "word", "", out)
           [] st = "comment" ->
                IF c = "\n" THEN Shlex(s, i + 1, "skip", "", out)
                ELSE Shlex(s, i + 1, "comment", "", out)
           [] st = "word" ->
                IF c = "\"" THEN Shlex(s, i + 1, "dq", cur, out)
                ELSE IF c = "'" THEN Shlex(s, i + 1, "sq", cur, out)
                ELSE IF c = "\\"
                     THEN IF i + 1 > Len(s) THEN [ok |-> FALSE, args |-> <<>>]
                          ELSE Shlex(s, i + 2, "word",
                                     IF Ch(s, i + 1) = "\n" THEN cur ELSE cur \o Ch(s, i + 1), out)
                ELSE IF c \in Whitespace THEN Shlex(s, i + 1, "skip", "", Append(out, cur))
                ELSE Shlex(s, i + 1, "word", cur \o c, out)
           [] st = "dq" ->
                IF c = "\\"
                THEN IF i + 1 > Len(s) THEN [ok |-> FALSE, args |-> <<>>]
                     ELSE LET c3 == Ch(s, i + 1) IN
                          Shlex(s, i + 2, "dq",
                                IF c3 \in DqEscapable THEN cur \o c3
                                ELSE IF c3 = "\n" THEN cur
                                ELSE cur \o c \o c3, out)
                ELSE IF c = "\"" THEN Shlex(s, i + 1, "word", cur, out)
                ELSE Shlex(s, i + 1, "dq", cur \o c, out)
           [] st = "sq" ->
                IF c = "'" THEN Shlex(s, i + 1, "word", cur, out)
                ELSE Shlex(s, i + 1, "sq", cur \o c, out)

\* ShlexSplit that takes a text it cannot split as one word: faulty variant
\* of ShlexSplit.
ShlexSplit_Lenient(s) ==
    IF Shlex(s, 1, "skip", "", <<>>).ok THEN Shlex(s, 1, "skip", "", <<>>)
    ELSE [ok |-> TRUE, args |-> <<s>>]

\* shlex::split(s): [ok |-> FALSE] stands for None.
ShlexSplit(s) == Shlex(s, 1, "skip", "", <<>>)

(***************************************************************************)
(* Argument matching of the builtins (clap's get_matches_from_safe with    *)
(* NoBinaryName): short flag clusters, long flags, options with a value,   *)
(* positionals.  An argument description is a record                        *)
(*   short  : short letter -> argument name                                *)
(*   long   : long name -> argument name                                   *)
(*   valued : names that take a value                                      *)
(*   multi  : names that may occur more than once                          *)
(*   pos    : names of the positionals, in index order                     *)
(*   posmulti : whether the last positional takes every remaining value    *)
(* A match is [ok, occ : name -> occurrences, val : name -> values].       *)
(***************************************************************************)
ArgNames(sp) ==
    {sp.short[c] : c \in DOMAIN sp.short} \cup {sp.long[l] : l \in DOMAIN sp.long}
        \cup {sp.pos[i] : i \in DOMAIN sp.pos}

ClapErr == [ok |-> FALSE, occ |-> <<>>, val |-> <<>>]

\* A word that begins a new flag or option rather than a value.
IsNewArg(t) == StartsWith(t, "-") /\ Len(t) # 1

ClapAdd(m, name, vals) ==
    [ok  |-> TRUE,
     occ |-> [m.occ EXCEPT ![name] = @ + 1],
     val |-> [m.val EXCEPT ![name] = @ \o vals]]

RECURSIVE Clap(_, _, _, _, _, _, _)
\* i: index of the current word; j: index inside a short cluster (0 outside);
\* npos: positionals seen; trailing: a "--" word has been passed.
Clap(sp, toks, i, j, npos, trailing, m) ==
    IF i > Len(toks) THEN m
    ELSE LET t == toks[i] IN
    IF j > 0 THEN
        \* inside the short cluster t, at character j
        IF j > Len(t) THEN Clap(sp, toks, i + 1, 0, npos, trailing, m)
        ELSE LET c == Ch(t, j) IN
             IF c \notin DOMAIN sp.short THEN ClapErr
             ELSE LET name == sp.short[c] IN
                  IF m.occ[name] > 0 /\ name \notin sp.multi THEN ClapErr
                  ELSE IF name \in sp.valued
                       THEN LET rest0 == SubSeq(t, j + 1, Len(t))
                                rest  == IF StartsWith(rest0, "=")
                                         THEN SubSeq(rest0, 2, Len(rest0)) ELSE rest0
                            IN  IF rest0 # ""
                                THEN Clap(sp, toks, i + 1, 0, npos, trailing,
                                          ClapAdd(m, name, <<rest>>))
                                ELSE IF i + 1 > Len(toks) \/ IsNewArg(toks[i + 1]) THEN ClapErr
                                ELSE Clap(sp, toks, i + 2, 0, npos, trailing,
                                          ClapAdd(m, name, <<toks[i + 1]>>))
                       ELSE Clap(sp, toks, i, j + 1, npos, trailing, ClapAdd(m, name, <<>>))
    ELSE IF ~trailing /\ t = "--" THEN Clap(sp, toks, i + 1, 0, npos, TRUE, m)
    ELSE IF ~trailing /\ StartsWith(t, "--") THEN
        LET body == SubSeq(t, 3, Len(t))
            eq   == Find(body, "=")
            l    == IF eq = 0 THEN body ELSE SubSeq(body, 1, eq - 1)
        IN  IF l \notin DOMAIN sp.long THEN ClapErr
            ELSE LET name == sp.long[l] IN
                 IF m.occ[name] > 0 /\ name \notin sp.multi THEN ClapErr
                 ELSE IF name \in sp.valued
                      THEN IF eq # 0
                           THEN Clap(sp, toks, i + 1, 0, npos, trailing,
                                     ClapAdd(m, name, <<SubSeq(body, eq + 1, Len(body))>>))
                           ELSE IF i + 1 > Len(toks) \/ IsNewArg(toks[i + 1]) THEN ClapErr
                           ELSE Clap(sp, toks, i + 2, 0, npos, trailing,
                                     ClapAdd(m, name, <<toks[i + 1]>>))
                      ELSE IF eq # 0 THEN ClapErr
                      ELSE Clap(sp, toks, i + 1, 0, npos, trailing, ClapAdd(m, name, <<>>))
    ELSE IF ~trailing /\ IsNewArg(t) THEN Clap(sp, toks, i, 2, npos, trailing, m)
    ELSE \* a positional value
        IF npos < Len(sp.pos)
        THEN Clap(sp, toks, i + 1, 0, npos + 1, trailing, ClapAdd(m, sp.pos[npos + 1], <<t>>))
        ELSE IF sp.posmulti /\ Len(sp.pos) > 0
        THEN Clap(sp, toks, i + 1, 0, npos, trailing, ClapAdd(m, sp.pos[Len(sp.pos)], <<t>>))
        ELSE ClapErr

\* App::get_matches_from_safe_borrow(args)
GetMatches(sp, args) ==
    Clap(sp, args, 1, 0, 0, FALSE,
         [ok  |-> TRUE,
          occ |-> [n \in ArgNames(sp) |-> 0],
          val |-> [n \in ArgNames(sp) |-> <<>>]])

IsPresent(m, name) == m.occ[name] > 0

NoShort == [c \in {} |-> ""]
NoLong == [l \in {} |-> ""]

ExitApp ==
    [short |-> NoShort, long |-> NoLong, valued |-> {"code"}, multi |-> {},
     pos |-> <<"code">>, posmulti |-> FALSE]

CdApp ==
    [short |-> NoShort, long |-> NoLong, valued |-> {"directory"}, multi |-> {},
     pos |-> <<"directory">>, posmulti |-> FALSE]

PushdApp == CdApp

DirsApp ==
    [short |-> [c \in {"v"} |-> "verbose"], long |-> NoLong, valued |-> {}, multi |-> {},
     pos |-> <<>>, posmulti |-> FALSE]

ExportApp ==
    [short |-> NoShort, long |-> NoLong, valued |-> {"vars"}, multi |-> {"vars"},
     pos |-> <<"vars">>, posmulti |-> TRUE]

UnsetApp == ExportApp

HistoryApp ==
    [short |-> [c \in {"c", "w"} |-> IF c = "c" THEN "clear" ELSE "write"],
     long |-> [l \in {"clear", "write"} |-> l],
     valued |-> {}, multi |-> {}, pos |-> <<>>, posmulti |-> FALSE]

HashApp ==
    [short |-> [c \in {"r"} |-> "rehash"], long |-> [l \in {"rehash"} |-> l],
     valued |-> {"command"}, multi |-> {}, pos |-> <<"command">>, posmulti |-> FALSE]

SetApp ==
    [short |-> [c \in {"x", "e", "v", "o"} |->
                  CASE c = "x" -> "xtrace" [] c = "e" -> "errexit"
                    [] c = "v" -> "verbose" [] c = "o" -> "option"],
     long |-> [l \in {"option"} |-> l],
     valued |-> {"option", "unset", "unset-name"}, multi |-> {"verbose"},
     pos |-> <<"unset", "unset-name">>, posmulti |-> FALSE]

(***************************************************************************)
(* The world outside the shell: a small file system, the home directory,   *)
(* the executables on the process PATH, the static configuration.          *)
(***************************************************************************)
VARIABLE removed  \* the directories removed since the shell was started
VARIABLE config   \* what the session is started with: Config::auto_cd, Config::env,
                  \* the inherited environment and the count of -v
VARIABLE printed  \* the lines the builtin of this line wrote to stdout: the listing
                  \* of export, the directory stack as pushd, popd and dirs show it

\* Existing paths, in the order glob yields them; the directories among them.
FsPaths == <<"/", "/d", "/d/a", "/d/b", "/h", "/n", "/t">>
FsDirs == {"/", "/d", "/h", "/n", "/t"}

\* The directories the user of the shell has no permission to enter.
NoAccessDirs == {"/n"}

\* The directories without entries, which rmdir can remove.
EmptyDirs == {"/t"}

\* dirs_next::home_dir()
HomeDir == "/h"

\* Executable files of the directories of the process PATH when the shell
\* is started, and the one directory of PATH.
PathExecutables == {"ls", "echo", "false"}
PathDir == "/bin"

\* Config::auto_cd and Config::aliases of the session.
AutoCd == config.auto_cd
Aliases == [a \in {"l", "ll"} |-> IF a = "l" THEN "ls -l" ELSE "l -a"]

\* PathBuf::join
PathJoin(base, rest) ==
    IF StartsWith(rest, "/") THEN rest
    ELSE IF Len(base) > 0 /\ Ch(base, Len(base)) = "/" THEN base \o rest
    ELSE base \o "/" \o rest

RECURSIVE StripSlashes(_)
StripSlashes(p) ==
    IF Len(p) > 1 /\ Ch(p, Len(p)) = "/" THEN StripSlashes(SubSeq(p, 1, Len(p) - 1)) ELSE p

\* Path::canonicalize().unwrap_or_default() for the path p seen from the
\* working directory wd: the absolute path, "" when p does not exist.
Canonical(p, wd) ==
    LET abs == IF p = "" THEN ""
               ELSE IF p = "." THEN wd
               ELSE StripSlashes(PathJoin(wd, p))
    IN  IF abs \notin removed /\ \E i \in 1..Len(FsPaths) : FsPaths[i] = abs
        THEN abs ELSE ""

\* Path::is_dir
IsDir(p, wd) == Canonical(p, wd) \in FsDirs

RECURSIVE WildMatch(_, _)
\* glob::Pattern::matches_path for patterns whose only metacharacter is "*",
\* which matches any run of characters other than the separator.
WildMatch(pat, str) ==
    IF pat = "" THEN str = ""
    ELSE IF Ch(pat, 1) = "*"
         THEN \/ WildMatch(SubSeq(pat, 2, Len(pat)), str)
              \/ /\ str # ""
                 /\ Ch(str, 1) # "/"
                 /\ WildMatch(pat, SubSeq(str, 2, Len(str)))
         ELSE /\ str # ""
              /\ Ch(str, 1) = Ch(pat, 1)
              /\ WildMatch(SubSeq(pat, 2, Len(pat)), SubSeq(str, 2, Len(str)))

\* The name glob reports for the existing path p: absolute for an absolute
\* pattern, relative to the working directory otherwise ("" when p is not
\* below the working directory).
GlobName(p, absolute, wd) ==
    IF absolute THEN p
    ELSE LET prefix == IF wd = "/" THEN "/" ELSE wd \o "/" IN
         IF StartsWith(p, prefix) THEN SubSeq(p, Len(prefix) + 1, Len(p)) ELSE ""

RECURSIVE PatternOkFrom(_, _)
\* glob::Pattern::new from position i on: a run of three or more "*" is an
\* error, "**" must be a whole path component, and "[" must open a range
\* that is closed.
PatternOkFrom(pat, i) ==
    IF i > Len(pat) THEN TRUE
    ELSE IF Ch(pat, i) = "*"
    THEN LET after == IF \E j \in i..Len(pat) : Ch(pat, j) # "*"
                      THEN CHOOSE j \in i..Len(pat) :
                             Ch(pat, j) # "*" /\ \A k \in i..(j - 1) : Ch(pat, k) = "*"
                      ELSE Len(pat) + 1
             count == after - i
         IN  IF count > 2 THEN FALSE
             ELSE IF count = 2
             THEN IF i = 1 \/ Ch(pat, i - 1) = "/"
                  THEN IF after <= Len(pat) /\ Ch(pat, after) = "/"
                       THEN PatternOkFrom(pat, after + 1)
                       ELSE after > Len(pat)
                  ELSE FALSE
             ELSE PatternOkFrom(pat, after)
    ELSE IF Ch(pat, i) = "["
    THEN LET from   == IF i + 1 <= Len(pat) /\ Ch(pat, i + 1) = "!" THEN i + 3 ELSE i + 2
             closed == \E j \in from..Len(pat) : Ch(pat, j) = "]"
         IN  IF closed
             THEN PatternOkFrom(pat, 1 + CHOOSE j \in from..Len(pat) :
                                       Ch(pat, j) = "]" /\ \A k \in from..(j - 1) : Ch(pat, k) # "]")
             ELSE FALSE
    ELSE PatternOkFrom(pat, i + 1)

\* glob(input) returns Ok.
PatternOk(pat) == PatternOkFrom(pat, 1)

RECURSIVE GlobFrom(_, _, _)
GlobFrom(pat, i, wd) ==
    IF i > Len(FsPaths) THEN <<>>
    ELSE LET name == GlobName(FsPaths[i], StartsWith(pat, "/"), wd) IN
         (IF name # "" /\ WildMatch(pat, name) THEN <<name>> ELSE <<>>)
             \o GlobFrom(pat, i + 1, wd)

\* util::expand_glob for an input glob accepts (glob(input).unwrap() panics
\* on the others, see GlobPanics).
expand_glob(input, wd) ==
    LET res == GlobFrom(input, 1, wd) IN IF res = <<>> THEN <<input>> ELSE res

\* The unwrap of expand_glob panics on one of the values: the loop of
\* parse_command calls expand_glob on every value that contains "*".
GlobPanics(values) ==
    \E i \in 1..Len(values) : Contains(values[i], "*") /\ ~PatternOk(values[i])

(***************************************************************************)
(* The steps of Prompt::parse_command.                                     *)
(***************************************************************************)
\* Prompt::restore_env: delete the recorded keys, then put the recorded
\* values back.
RestoreEnvOf(e, r, d) ==
    [x \in (DOMAIN e \ d) \cup DOMAIN r |-> IF x \in DOMAIN r THEN r[x] ELSE e[x]]

RECURSIVE ScanEvery(_, _, _, _, _, _, _)
\* A scan that takes every KEY=VALUE word from position i on as an inline
\* assignment, wherever it stands, and keeps the other words.
ScanEvery(words, i, e, r, d, a, kept) ==
    IF i > Len(words)
    THEN [env |-> e, restore |-> r, delete |-> d, rest |-> kept, assigned |-> a]
    ELSE LET v   == words[i]
             pos == Find(v, "=")
         IN  IF pos = 0
             THEN ScanEvery(words, i + 1, e, r, d, a, Append(kept, v))
             ELSE LET k   == SubSeq(v, 1, pos - 1)
                      val == SubSeq(v, pos + 1, Len(v))
                  IN  ScanEvery(words, i + 1,
                                EnvInsert(e, k, val),
                                IF k \in DOMAIN e THEN EnvInsert(r, k, e[k]) ELSE r,
                                IF k \in DOMAIN e THEN d ELSE d \cup {k},
                                EnvInsert(a, k, val), kept)

\* abort_inline that does not stop the scan: faulty variant of abort_inline.
abort_inline_KeepsScanning(words, i, e, r, d, a) == ScanEvery(words, i, e, r, d, a, <<>>)

\* The first word without "=" sets abort_inline: the scan is over and the
\* words from this one on remain, to be substituted only.
abort_inline(words, i, e, r, d, a) ==
    [env |-> e, restore |-> r, delete |-> d,
     rest |-> SubSeq(words, i, Len(words)), assigned |-> a]

RECURSIVE InlineScan_NoInsert(_, _, _, _, _, _)
\* InlineScan without the insert of the inline value into the environment:
\* faulty variant of InlineScan.
InlineScan_NoInsert(words, i, e, r, d, a) ==
    IF i > Len(words)
    THEN [env |-> e, restore |-> r, delete |-> d, rest |-> <<>>, assigned |-> a]
    ELSE LET v   == words[i]
             pos == Find(v, "=")
         IN  IF pos = 0
             THEN abort_inline(words, i, e, r, d, a)
             ELSE LET k   == SubSeq(v, 1, pos - 1)
                      val == SubSeq(v, pos + 1, Len(v))
                  IN  InlineScan_NoInsert(words, i + 1, e,
                                          IF k \in DOMAIN e THEN EnvInsert(r, k, e[k]) ELSE r,
                                          IF k \in DOMAIN e THEN d ELSE d \cup {k},
                                          EnvInsert(a, k, val))

RECURSIVE InlineScan(_, _, _, _, _, _)
\* The filter_map over the words up to the first word without "=": the
\* environment, restore map and delete set it leaves, the words that remain
\* (not yet substituted) and, for each key assigned, the value last given.
InlineScan(words, i, e, r, d, a) ==
    IF i > Len(words)
    THEN [env |-> e, restore |-> r, delete |-> d, rest |-> <<>>, assigned |-> a]
    ELSE LET v   == words[i]
             pos == Find(v, "=")
         IN  IF pos = 0
             THEN abort_inline(words, i, e, r, d, a)
             ELSE LET k   == SubSeq(v, 1, pos - 1)
                      val == SubSeq(v, pos + 1, Len(v))
                  IN  InlineScan(words, i + 1,
                                 EnvInsert(e, k, val),
                                 IF k \in DOMAIN e THEN EnvInsert(r, k, e[k]) ELSE r,
                                 IF k \in DOMAIN e THEN d ELSE d \cup {k},
                                 EnvInsert(a, k, val))

\* The substitution of the whole line, before it is split into words.
substitute_line(input, e, ord) == ReplaceVarsOrd(input, e, ord)

RECURSIVE AliasSubst_Recursive(_)
\* AliasSubst that looks its result up again: faulty variant of AliasSubst.
AliasSubst_Recursive(values) ==
    IF values # <<>> /\ values[1] \in DOMAIN Aliases
    THEN AliasSubst_Recursive(SplitWhitespace(Aliases[values[1]]) \o Tail(values))
    ELSE values

\* Alias substitution of the first word.
AliasSubst(values) ==
    IF values[1] \in DOMAIN Aliases
    THEN SplitWhitespace(Aliases[values[1]]) \o Tail(values)
    ELSE values

\* Tilde expansion of one word.
TildeExpand(x) ==
    IF ~StartsWith(x, "~") THEN x
    ELSE LET cnt == IF StartsWith(x, "~/") THEN 2 ELSE 1 IN
         PathJoin(HomeDir, SubSeq(x, cnt + 1, Len(x)))

RECURSIVE GlobExpand(_, _)
\* Glob expansion of the word list.
GlobExpand(values, wd) ==
    IF values = <<>> THEN <<>>
    ELSE (IF Contains(values[1], "*") THEN expand_glob(values[1], wd) ELSE <<values[1]>>)
             \o GlobExpand(Tail(values), wd)

\* command::parse: the names the function maps to a builtin.
BuiltinKind(program) ==
    CASE program = "cd" -> "Cd"
      [] program = "exit" -> "Exit"
      [] program = "export" -> "Export"
      [] program \in {"history", "hist", "h"} -> "History"
      [] program = "quit" -> "Quit"
      [] program = "rehash" -> "Rehash"
      [] program = "set" -> "Set"
      [] program = "unset" -> "Unset"
      [] OTHER -> "General"

\* The builtins of the command modules pushd, popd, dirs and hash, which
\* command::parse reaches through their CommandAliases names.
LaterBuiltinKind(program) ==
    CASE program = "pushd" -> "Pushd"
      [] program = "popd" -> "Popd"
      [] program = "dirs" -> "Dirs"
      [] program = "hash" -> "Hash"
      [] OTHER -> "General"

parse(program, args) ==
    [tag |-> "Ok",
     kind |-> IF BuiltinKind(program) # "General" THEN BuiltinKind(program)
              ELSE LaterBuiltinKind(program),
     program |-> program, args |-> args]

NoCommandError == [tag |-> "NoCommand", kind |-> "", program |-> "", args |-> <<>>]
CommandArgsSplitError == [tag |-> "CommandArgsSplit", kind |-> "", program |-> "", args |-> <<>>]

\* parse_command did not return: the thread panicked inside it.
Panicked == [tag |-> "Panic", kind |-> "", program |-> "", args |-> <<>>]
EofError == [tag |-> "Eof", kind |-> "", program |-> "", args |-> <<>>]
ReadlineError == [tag |-> "ReadError", kind |-> "", program |-> "", args |-> <<>>]

\* parse_command from the alias substitution on, for a non-empty word list.
Expand(values0, wd) ==
    LET values   == [i \in 1..Len(AliasSubst(values0)) |-> TildeExpand(AliasSubst(values0)[i])]
        expanded == GlobExpand(values, wd)
        program  == expanded[1]
        split    == ShlexSplit(Join(Tail(expanded), " "))
        \* expanded_values after drain(1..) has taken the arguments out of it
        drained  == <<expanded[1]>>
    IN  IF GlobPanics(values) THEN Panicked
        ELSE IF ~split.ok THEN CommandArgsSplitError
        ELSE IF AutoCd /\ Len(drained) = 1 /\ IsDir(values[1], wd)
             THEN parse("cd", <<program>>)
             ELSE parse(program, split.args)

(***************************************************************************)
(* State of a session.                                                     *)
(***************************************************************************)
VARIABLES
    inputs,       \* the lines the user of this session types
    mode,         \* "interactive", "stdin" (-s) or "command" (-c)
    pc,           \* "read", "restored" (inside parse_command), "parsed", "done",
                  \* "panicked" (the process died of a panic)
    nread,        \* input events consumed so far
    event,        \* the last input event: "line", "eof", "interrupt", "error"
    line,         \* the line being processed
    env,          \* ContextData::env
    restore_env,  \* Prompt::restore_env
    delete_env,   \* Prompt::delete_env
    xtrace, errexit, ignoreeof, verbose,
    dir_stack,    \* ContextData::dir_stack, top at the tail
    cwd,          \* working directory of the process
    commands,     \* ContextData::commands
    edit_mode,    \* edit mode of the line editor
    cmd,          \* the PromptResult handed to command::execute
    result,       \* what Command::execute returned for the last command
    exit_code,    \* the code repl returned, once pc = "done"
    yielded,      \* the Option<i32> command::execute returned for the last event
    child,        \* the child process of this line: its environment, how it ended
    snap,         \* the session context when the last input event arrived
    start_env,    \* the environment as restore_env left it for this line
    assigned,     \* key -> value of the inline assignments of this line
    touched,      \* keys the command of this line wrote or removed
    prev          \* start_env, assigned keys and touched of the previous line; when
                  \* its command was pushd, the arguments and the working directory
                  \* and directory stack before it

vars ==
    <<inputs, mode, pc, nread, event, line, env, restore_env, delete_env,
      xtrace, errexit, ignoreeof, verbose, dir_stack, cwd, commands, edit_mode,
      cmd, result, yielded, exit_code, child, snap, start_env, assigned, touched, prev,
      removed, config, printed>>

EmptyMap == [k \in {} |-> ""]

NoResult == [tag |-> "None", ok |-> FALSE, code |-> 0]
Ok(b) == [tag |-> "Ok", ok |-> b, code |-> 0]
Err(c) == [tag |-> "Err", ok |-> FALSE, code |-> c]

None == [some |-> FALSE, code |-> 0]
Some(c) == [some |-> TRUE, code |-> c]

NoPushd == [some |-> FALSE, args |-> <<>>, cwd |-> "", stack |-> <<>>]

NoChild == [spawned |-> FALSE, env |-> EmptyMap, outcome |-> "none", code |-> 0]

Lookup(e, k) == IF k \in DOMAIN e THEN <<e[k]>> ELSE <<>>

\* The lines of a session about inline assignments.
LinesInline ==
    {"", "A=1 echo $A", "A=1 A=2 echo", "A=1 export B=2", "B=2 A=1 ls $A$B",
     "export A=42", "export A=$A", "unset A", "A=1", "echo 'x", "$-"}

\* The lines of a session about termination and exit codes.
LinesExit ==
    {"exit", "exit 3", "exit abc", "exit -1", "exit 1 2", "quit", "false", "nosuch arg",
     "set -e", "set -o ignoreeof", "export ?=abc", "unset ?"}

\* The lines of a session that runs every builtin.
LinesBuiltin ==
    {"cd /d", "/h", "pushd /d", "popd", "dirs", "history", "hash ls", "hash nosuch",
     "rehash", "set -e", "set +e", "set +o ignoreeof", "ll /d/*"}

\* The lines of a session that toggles the options of set.
LinesSet ==
    {"set -x", "set +x", "set -o xtrace", "set +o xtrace", "set +option xtrace",
     "set -e", "set +e", "set --option errexit", "set +o errexit",
     "set -v", "set -vv", "set +v", "set -o verbose", "set +o verbose",
     "unset -", "export -", "-=x set -e"}

\* The lines of a session of builtins with arguments they reject, among
\* lines that change the session.
LinesInvalid ==
    {"exit abc", "exit 1 2", "set -q", "set -o foobarbaz", "set +", "set x", "set +o emacs",
     "set +o", "set +q", "cd a b", "pushd a b", "dirs -q", "history -q", "hash -q",
     "export -x", "unset -x", "set -x", "set -o vi", "pushd /d", "export A=1"}

\* The lines of a session that moves between directories, one of which is
\* removed on the way.
LinesDirs ==
    {"pushd /t", "rmdir /t", "pushd /d", "pushd", "popd", "cd", "cd /", "cd /d", "cd /t",
     "cd /d/a", "cd /nosuch", "cd ."}

\* The lines of a session about empty word lists, quoting and aliases.
LinesWords ==
    {"  ", "A=1 B=2", "$-", "${-}", "A= $A", "export A", "echo \"x", "echo x\\", "echo 'x",
     "echo 'a b' \"c d\" e\\ f", "A=1 echo 'x", "ll", "l", "echo ll", "A=1 ll", "ll /d/*"}

\* The lines of a session about auto_cd and the names of commands:
\* directories and files as the first word, alone and with arguments, the
\* short names of history.
LinesAuto == {"/d", "/d /h", "/d/a", "d", ".", "~", "ls /d", "/h*", "hist", "h", "histor 1"}

\* The lines of a session about the substitution of variables.
LinesVars ==
    {"echo $USERNAME", "echo $USER", "echo ${USER}NAME", "echo x${USER}${USERNAME}",
     "echo ${NOPE} $NOPE", "echo $A", "echo ${A}", "echo $USER$USERNAME"}

\* The lines of a session that exports and lists variables.
LinesExport ==
    {"export", "export A=1 A=2", "export B=2=3 C", "export =x", "export -x A=1",
     "export -- A=1", "unset A"}

\* The lines of a session that asks for known commands while an executable
\* is removed from PATH.
LinesHash ==
    {"hash", "hash false", "hash nosuch", "hash -r", "hash -r false", "rm /bin/false",
     "set -e"}

\* The lines of a session with globs: with and without matches, and not
\* well formed.
LinesGlob ==
    {"ls /d/*", "ls /x* /d/*", "ls /d/a**", "ls [*", "echo ***", "ls /d/a", "*"}

\* The lines of a session that pushes directories, one of which cannot be
\* entered, and pops them.
LinesPushPop == {"pushd /d", "pushd /n", "pushd h", "popd"}

\* The lines of a session that changes its PATH and rescans.
LinesPath == {"export PATH=/d", "export PATH=/d:/bin", "rehash", "hash -r", "hash a"}

\* The lines of a session that writes bare references next to each other and
\* next to punctuation.
LinesAdjacent == {"echo $A$B", "echo $A-x", "echo $A $B", "echo $A/x"}

\* The lines of a session that gives set several flags at once.
LinesFlags == {"set -x -e", "set -xe", "set -e -x", "set -e -o ignoreeof", "set -x", "set +x"}

\* The lines of a session that exports and unsets a key, with and without
\* an inline assignment of the same key on the line.
LinesPersist == {"A=1 export A=2", "A=5 unset A", "export A=3", "unset A", "echo $A"}

\* The lines of a session that fills the directory stack and shows it.
LinesStack == {"pushd /d", "pushd /h", "dirs", "dirs -v", "popd"}

\* The lines of a session whose command has one quoted argument.
LinesQuoted ==
    {"echo 'a b'", "echo 'a  b'", "echo '$A'", "echo \"it's\"", "echo 'x /d/* y'",
     "echo 'x ~ y'", "echo 'x A=1 y'", "echo \"$A \""}

\* The lines of a session that looks at the environment it was started with.
LinesSetup == {"echo $HELLO $-", "set +v", "export"}

\* The env entries of the configuration.
NoConfigEnv == EmptyMap
ConfigEnvHello ==
    [k \in {"HELLO", "A", "?", "-"} |->
       CASE k = "HELLO" -> "$A,${B}" [] k = "A" -> "1" [] k = "?" -> "9" [] k = "-" -> "q"]

\* The environments the shell inherits from its parent.
NoInherited == EmptyMap
InheritedA == [k \in {"A"} |-> "42"]
InheritedPath == [k \in {"PATH"} |-> PathDir]
InheritedAB == [k \in {"A", "B"} |-> IF k = "A" THEN "42" ELSE "84"]
InheritedUser == [k \in {"USER"} |-> "test"]
InheritedUsers == [k \in {"USER", "USERNAME"} |-> IF k = "USER" THEN "test" ELSE "foobar"]
InheritedNested == [k \in {"A", "B"} |-> IF k = "A" THEN "$B" ELSE "x"]
InheritedMarks ==
    [k \in {"A", "B", "?", "-"} |->
       CASE k = "A" -> "42" [] k = "B" -> "84" [] k = "?" -> "7" [] k = "-" -> "x"]

\* The sessions of the model: what is typed, how the shell was started
\* (interactive, -s or -c), the inherited environment, the directory the
\* shell is started in and its configuration.
Sessions ==
    {[inputs |-> LinesInline, mode |-> "interactive",
      inherited |-> NoInherited, cwd |-> "/", auto_cd |-> TRUE,
      config_env |-> NoConfigEnv, verbose |-> 0],
     [inputs |-> LinesInline, mode |-> "interactive",
      inherited |-> InheritedA, cwd |-> "/", auto_cd |-> TRUE,
      config_env |-> NoConfigEnv, verbose |-> 0],
     [inputs |-> LinesExit, mode |-> "interactive",
      inherited |-> NoInherited, cwd |-> "/", auto_cd |-> TRUE,
      config_env |-> NoConfigEnv, verbose |-> 0],
     [inputs |-> LinesExit, mode |-> "stdin",
      inherited |-> NoInherited, cwd |-> "/", auto_cd |-> TRUE,
      config_env |-> NoConfigEnv, verbose |-> 0],
     [inputs |-> LinesExit, mode |-> "command",
      inherited |-> NoInherited, cwd |-> "/", auto_cd |-> TRUE,
      config_env |-> NoConfigEnv, verbose |-> 0],
     [inputs |-> LinesBuiltin, mode |-> "interactive",
      inherited |-> NoInherited, cwd |-> "/", auto_cd |-> TRUE,
      config_env |-> NoConfigEnv, verbose |-> 0],
     [inputs |-> LinesSet, mode |-> "interactive",
      inherited |-> NoInherited, cwd |-> "/", auto_cd |-> TRUE,
      config_env |-> NoConfigEnv, verbose |-> 0],
     [inputs |-> LinesInvalid, mode |-> "interactive",
      inherited |-> NoInherited, cwd |-> "/", auto_cd |-> TRUE,
      config_env |-> NoConfigEnv, verbose |-> 0],
     [inputs |-> LinesDirs, mode |-> "interactive",
      inherited |-> NoInherited, cwd |-> "/", auto_cd |-> TRUE,
      config_env |-> NoConfigEnv, verbose |-> 0],
     [inputs |-> LinesDirs, mode |-> "interactive",
      inherited |-> NoInherited, cwd |-> "/t", auto_cd |-> TRUE,
      config_env |-> NoConfigEnv, verbose |-> 0],
     [inputs |-> LinesWords, mode |-> "interactive",
      inherited |-> NoInherited, cwd |-> "/", auto_cd |-> TRUE,
      config_env |-> NoConfigEnv, verbose |-> 0],
     [inputs |-> LinesWords, mode |-> "stdin",
      inherited |-> NoInherited, cwd |-> "/", auto_cd |-> TRUE,
      config_env |-> NoConfigEnv, verbose |-> 0],
     [inputs |-> LinesAuto, mode |-> "interactive",
      inherited |-> NoInherited, cwd |-> "/", auto_cd |-> TRUE,
      config_env |-> NoConfigEnv, verbose |-> 0],
     [inputs |-> LinesAuto, mode |-> "interactive",
      inherited |-> NoInherited, cwd |-> "/", auto_cd |-> FALSE,
      config_env |-> NoConfigEnv, verbose |-> 0],
     [inputs |-> LinesVars, mode |-> "interactive",
      inherited |-> InheritedUser, cwd |-> "/", auto_cd |-> TRUE,
      config_env |-> NoConfigEnv, verbose |-> 0],
     [inputs |-> LinesVars, mode |-> "interactive",
      inherited |-> InheritedUsers, cwd |-> "/", auto_cd |-> TRUE,
      config_env |-> NoConfigEnv, verbose |-> 0],
     [inputs |-> LinesVars, mode |-> "interactive",
      inherited |-> InheritedNested, cwd |-> "/", auto_cd |-> TRUE,
      config_env |-> NoConfigEnv, verbose |-> 0],
     [inputs |-> LinesExport, mode |-> "interactive",
      inherited |-> InheritedA, cwd |-> "/", auto_cd |-> TRUE,
      config_env |-> NoConfigEnv, verbose |-> 0],
     [inputs |-> LinesHash, mode |-> "interactive",
      inherited |-> NoInherited, cwd |-> "/", auto_cd |-> TRUE,
      config_env |-> NoConfigEnv, verbose |-> 0],
     [inputs |-> LinesGlob, mode |-> "interactive",
      inherited |-> NoInherited, cwd |-> "/d", auto_cd |-> TRUE,
      config_env |-> NoConfigEnv, verbose |-> 0],
     [inputs |-> LinesPushPop, mode |-> "interactive",
      inherited |-> NoInherited, cwd |-> "/", auto_cd |-> TRUE,
      config_env |-> NoConfigEnv, verbose |-> 0],
     [inputs |-> LinesPath, mode |-> "interactive",
      inherited |-> InheritedPath, cwd |-> "/", auto_cd |-> TRUE,
      config_env |-> NoConfigEnv, verbose |-> 0],
     [inputs |-> LinesAdjacent, mode |-> "interactive",
      inherited |-> InheritedAB, cwd |-> "/", auto_cd |-> TRUE,
      config_env |-> NoConfigEnv, verbose |-> 0],
     [inputs |-> LinesFlags, mode |-> "interactive",
      inherited |-> NoInherited, cwd |-> "/", auto_cd |-> TRUE,
      config_env |-> NoConfigEnv, verbose |-> 0],
     [inputs |-> LinesPersist, mode |-> "interactive",
      inherited |-> InheritedA, cwd |-> "/", auto_cd |-> TRUE,
      config_env |-> NoConfigEnv, verbose |-> 0],
     [inputs |-> LinesStack, mode |-> "interactive",
      inherited |-> NoInherited, cwd |-> "/", auto_cd |-> TRUE,
      config_env |-> NoConfigEnv, verbose |-> 0],
     [inputs |-> LinesQuoted, mode |-> "interactive",
      inherited |-> InheritedA, cwd |-> "/", auto_cd |-> TRUE,
      config_env |-> NoConfigEnv, verbose |-> 0],
     [inputs |-> LinesSetup, mode |-> "interactive",
      inherited |-> InheritedMarks, cwd |-> "/", auto_cd |-> TRUE,
      config_env |-> ConfigEnvHello, verbose |-> 0],
     [inputs |-> LinesSetup, mode |-> "interactive",
      inherited |-> InheritedNested, cwd |-> "/", auto_cd |-> TRUE,
      config_env |-> ConfigEnvHello, verbose |-> 1]}

\* How a spawned program can end: it cannot be started, waiting for it fails,
\* it is killed by a signal, or it exits with a code.
ChildExitCodes == {0, 2}
ChildOutcomes ==
    {[outcome |-> "spawn_error", code |-> 0], [outcome |-> "wait_error", code |-> 0],
     [outcome |-> "signaled", code |-> 0]}
        \cup {[outcome |-> "exited", code |-> c] : c \in ChildExitCodes}

\* setup_env where every config value is substituted against the
\* environment that already holds the config entries: faulty variant of
\* setup_env.
setup_env_InsertsFirst(e, centries, v, o) ==
    LET raw     == [k \in DOMAIN e \cup DOMAIN centries |->
                      IF k \in DOMAIN centries THEN centries[k] ELSE e[k]]
        entries == [k \in DOMAIN centries |-> ReplaceVarsOrd(centries[k], raw, o)]
        seeded  == [k \in DOMAIN e \cup DOMAIN centries |->
                      IF k \in DOMAIN centries THEN entries[k] ELSE e[k]]
    IN  EnvInsert(EnvInsert(seeded, "?", "0"), "-", IF v > 0 THEN "v" ELSE "")

\* Prompt::setup_env on the inherited environment e, with the env entries
\* centries of the configuration, the verbose count v and the iteration
\* order o of e.
setup_env(e, centries, v, o) ==
    LET entries == [k \in DOMAIN centries |-> ReplaceVarsOrd(centries[k], e, o)]
        seeded  == [k \in DOMAIN e \cup DOMAIN centries |->
                      IF k \in DOMAIN centries THEN entries[k] ELSE e[k]]
    IN  EnvInsert(EnvInsert(seeded, "?", "0"), "-", IF v > 0 THEN "v" ELSE "")

\* The values of a map, as texts to substitute.
ValuesOf(m) == LET keys == CHOOSE q \in [1..Cardinality(DOMAIN m) -> DOMAIN m] :
                              \A k \in DOMAIN m : \E i \in DOMAIN q : q[i] = k
               IN  [i \in DOMAIN keys |-> m[keys[i]]]

Init ==
    /\ \E s \in Sessions :
         /\ inputs = s.inputs
         /\ mode = s.mode
         /\ \E o \in OrdersFor(ValuesOf(s.config_env), s.inherited) :
              env = setup_env(s.inherited, s.config_env, s.verbose, o)
         /\ verbose = s.verbose
         /\ cwd = s.cwd
         /\ config = [auto_cd |-> s.auto_cd, env |-> s.config_env,
                      inherited |-> s.inherited, verbose |-> s.verbose]
    /\ pc = "read"
    /\ nread = 0
    /\ event = "none"
    /\ line = ""
    /\ restore_env = EmptyMap
    /\ delete_env = {}
    /\ xtrace = FALSE
    /\ errexit = FALSE
    /\ ignoreeof = FALSE
    /\ dir_stack = <<>>
    /\ commands = PathExecutables
    /\ edit_mode = "emacs"
    /\ cmd = NoCommandError
    /\ result = NoResult
    /\ yielded = None
    /\ exit_code = 0
    /\ child = NoChild
    /\ removed = {}
    /\ printed = <<>>
    /\ snap = <<env, restore_env, delete_env, xtrace, errexit, ignoreeof, verbose,
               dir_stack, cwd, commands, edit_mode>>
    /\ start_env = env
    /\ assigned = EmptyMap
    /\ touched = {}
    /\ prev = [start |-> env, assigned |-> {}, touched |-> {}, pushd |-> NoPushd]

session == <<env, restore_env, delete_env, xtrace, errexit, ignoreeof, verbose,
             dir_stack, cwd, commands, edit_mode>>
ghosts == <<start_env, assigned, touched, prev>>

(***************************************************************************)
(* Reading input.                                                          *)
(***************************************************************************)
CanRead == pc = "read" /\ nread < MaxLines /\ (mode = "command" => nread = 0)

\* A line is read (readline, stdin.lines() or the -c argument) and
\* parse_command starts on it: restore_env() runs.
ReadLine ==
    /\ CanRead
    /\ \E l \in inputs : line' = l
    /\ nread' = nread + 1
    /\ event' = "line"
    /\ env' = RestoreEnvOf(env, restore_env, delete_env)
    /\ restore_env' = EmptyMap
    /\ delete_env' = {}
    /\ pc' = "restored"
    /\ start_env' = env'
    /\ assigned' = EmptyMap
    /\ touched' = {}
    /\ prev' = [start |-> start_env, assigned |-> DOMAIN assigned, touched |-> touched,
                pushd |-> IF event = "line" /\ cmd.tag = "Ok" /\ cmd.kind = "Pushd"
                          THEN [some |-> TRUE, args |-> cmd.args, cwd |-> snap[9],
                                stack |-> snap[8]]
                          ELSE NoPushd]
    /\ yielded' = None
    /\ child' = NoChild
    /\ snap' = session
    /\ printed' = <<>>
    /\ UNCHANGED <<inputs, mode, config, removed, xtrace, errexit, ignoreeof, verbose, dir_stack, cwd,
                   commands, edit_mode, cmd, result, exit_code>>

\* readline returns ReadlineError::Interrupted: show_parse_command yields
\* NoCommandError without calling parse_command.
ReadInterrupted ==
    /\ CanRead
    /\ mode = "interactive"
    /\ nread' = nread + 1
    /\ event' = "interrupt"
    /\ yielded' = None
    /\ snap' = session
    /\ cmd' = NoCommandError
    /\ pc' = "parsed"
    /\ UNCHANGED <<inputs, mode, config, printed, removed, line, session, result, exit_code, child, ghosts>>

\* End of input: EofError in the interactive loop; the end of the for loop
\* over stdin.lines(), and return 0, in the stdin mode.
ReadEof ==
    /\ CanRead
    /\ mode \in {"interactive", "stdin"}
    /\ nread' = nread + 1
    /\ event' = "eof"
    /\ yielded' = None
    /\ snap' = session
    /\ IF mode = "interactive"
       THEN cmd' = EofError /\ pc' = "parsed" /\ UNCHANGED exit_code
       ELSE pc' = "done" /\ exit_code' = 0 /\ UNCHANGED cmd
    /\ UNCHANGED <<inputs, mode, config, printed, removed, line, session, result, child, ghosts>>

\* Any other read error: show_parse_command prints it and yields it as the
\* error of the PromptResult; the stdin mode returns 1.
ReadError ==
    /\ CanRead
    /\ mode \in {"interactive", "stdin"}
    /\ nread' = nread + 1
    /\ event' = "error"
    /\ yielded' = None
    /\ snap' = session
    /\ IF mode = "interactive"
       THEN cmd' = ReadlineError /\ pc' = "parsed" /\ UNCHANGED exit_code
       ELSE pc' = "done" /\ exit_code' = 1 /\ UNCHANGED cmd
    /\ UNCHANGED <<inputs, mode, config, printed, removed, line, session, result, child, ghosts>>

\* CheckEmpty that hands an empty word list on as a command without a
\* program: faulty variant of CheckEmpty.
CheckEmpty_EmptyProgram(values, wd) ==
    IF values = <<>> THEN parse("", <<>>) ELSE Expand(values, wd)

\* parse_command once the inline assignments are taken out: NoCommandError
\* for an empty word list, the expansions and command::parse otherwise.
CheckEmpty(values, wd) ==
    IF values = <<>> THEN NoCommandError ELSE Expand(values, wd)

\* The rest of parse_command, after restore_env().
ParseCommand ==
    /\ pc = "restored"
    /\ LET input == Trim(line) IN
       IF input = ""
       THEN /\ cmd' = NoCommandError
            /\ UNCHANGED <<env, restore_env, delete_env, assigned>>
       ELSE \E o1 \in OrdersFor(<<input>>, env) :
              LET scan == InlineScan(SplitWhitespace(substitute_line(input, env, o1)), 1,
                                     env, restore_env, delete_env, EmptyMap)
              IN  \E o2 \in OrdersFor(scan.rest, scan.env) :
                    LET values == [i \in 1..Len(scan.rest) |->
                                     ReplaceVarsOrd(scan.rest[i], scan.env, o2)]
                    IN  /\ env' = scan.env
                        /\ restore_env' = scan.restore
                        /\ delete_env' = scan.delete
                        /\ assigned' = scan.assigned
                        /\ cmd' = CheckEmpty(values, cwd)
    /\ pc' = IF cmd'.tag = "Panic" THEN "panicked" ELSE "parsed"
    /\ UNCHANGED <<inputs, mode, config, printed, removed, nread, event, line, snap, xtrace, errexit, ignoreeof, verbose,
                   dir_stack, cwd, commands, edit_mode, result, yielded, exit_code,
                   child, start_env, touched, prev>>

(***************************************************************************)
(* command::execute and the loop of repl around it.                        *)
(***************************************************************************)
\* execute returned None: the loop goes on (the -c mode returns 0).
Continue ==
    /\ yielded' = None
    /\ IF mode = "command"
       THEN pc' = "done" /\ exit_code' = 0
       ELSE pc' = "read" /\ UNCHANGED exit_code

\* Finish where a failed command, Ok(false), ends the loop with code 1:
\* faulty variant of Finish.
Finish_FailureExits(res) ==
    /\ result' = res
    /\ IF res.tag = "Err"
       THEN yielded' = Some(res.code) /\ pc' = "done" /\ exit_code' = res.code
       ELSE IF ~res.ok
            THEN yielded' = Some(1) /\ pc' = "done" /\ exit_code' = 1
            ELSE Continue

\* The command returned res: Ok(_) gives None, Err(code) gives Some(code),
\* which repl returns.
Finish(res) ==
    /\ result' = res
    /\ IF res.tag = "Err"
       THEN yielded' = Some(res.code) /\ pc' = "done" /\ exit_code' = res.code
       ELSE Continue

Dispatch(kind) == pc = "parsed" /\ cmd.tag = "Ok" /\ cmd.kind = kind

\* The Err(err) arm without the test of ignoreeof: faulty variant of
\* ExecuteError.
ExecuteError_EofAlwaysExits ==
    /\ pc = "parsed"
    /\ cmd.tag # "Ok"
    /\ IF cmd.tag = "Eof"
       THEN yielded' = Some(0) /\ pc' = "done" /\ exit_code' = 0
       ELSE Continue
    /\ result' = NoResult
    /\ UNCHANGED <<inputs, mode, config, printed, removed, nread, event, line, snap, session, cmd, child, ghosts>>

\* The Err(err) arm of command::execute.
ExecuteError ==
    /\ pc = "parsed"
    /\ cmd.tag # "Ok"
    /\ IF cmd.tag = "Eof" /\ ~ignoreeof
       THEN yielded' = Some(0) /\ pc' = "done" /\ exit_code' = 0
       ELSE Continue
    /\ result' = NoResult
    /\ UNCHANGED <<inputs, mode, config, printed, removed, nread, event, line, snap, session, cmd, child, ghosts>>

\* ExitOutcome where arguments that are not valid end the shell with code 1:
\* faulty variant of ExitOutcome.
ExitOutcome_InvalidExits(args, e) ==
    LET m     == GetMatches(ExitApp, args)
        given == m.ok /\ IsPresent(m, "code")
        valid == m.ok /\ (given => ParseI32(m.val["code"][1]).ok)
        code  == IF valid /\ given THEN ParseI32(m.val["code"][1]).val ELSE 0
        last  == IF "?" \in DOMAIN e THEN ParseI32(e["?"]) ELSE [ok |-> FALSE, val |-> 0]
    IN  IF ~valid THEN Err(1)
        ELSE IF Len(args) = 0 /\ last.ok THEN Err(last.val)
        ELSE Err(code)

\* ExitCommand::new and ExitCommand::execute
ExitOutcome(args, e) ==
    LET m     == GetMatches(ExitApp, args)
        given == m.ok /\ IsPresent(m, "code")
        valid == m.ok /\ (given => ParseI32(m.val["code"][1]).ok)
        code  == IF valid /\ given THEN ParseI32(m.val["code"][1]).val ELSE 0
        last  == IF "?" \in DOMAIN e THEN ParseI32(e["?"]) ELSE [ok |-> FALSE, val |-> 0]
    IN  IF ~valid THEN Ok(FALSE)
        ELSE IF Len(args) = 0 /\ last.ok THEN Err(last.val)
        ELSE Err(code)

ExitExecute ==
    /\ Dispatch("Exit")
    /\ Finish(ExitOutcome(cmd.args, env))
    /\ UNCHANGED <<inputs, mode, config, printed, removed, nread, event, line, snap, session, cmd, child, ghosts>>

\* QuitCommand::execute
QuitOutcome == Err(0)

QuitExecute ==
    /\ Dispatch("Quit")
    /\ Finish(QuitOutcome)
    /\ UNCHANGED <<inputs, mode, config, printed, removed, nread, event, line, snap, session, cmd, child, ghosts>>

\* GeneralCommand::execute once the child has been waited for: the value of
\* $? and the result, for the exit code of the child (none when a signal
\* killed it).
WaitedStatus(o) == IF o.outcome = "exited" THEN o.code ELSE 0
WaitedSuccess(o) == o.outcome = "exited" /\ o.code = 0
\* WaitedOutcome with the fixed code 1 for a failure under errexit: faulty
\* variant of WaitedOutcome.
WaitedOutcome_CodeOne(o, ee) ==
    IF ee /\ ~WaitedSuccess(o) THEN Err(1) ELSE Ok(WaitedSuccess(o))

WaitedOutcome(o, ee) ==
    IF ee /\ ~WaitedSuccess(o) THEN Err(WaitedStatus(o)) ELSE Ok(WaitedSuccess(o))

\* SpawnErrorOutcome that is never fatal: faulty variant of SpawnErrorOutcome.
SpawnErrorOutcome_NeverFatal(ee) == Ok(FALSE)

\* GeneralCommand::execute when the program cannot be started.
SpawnErrorOutcome(ee) == IF ee THEN Err(1) ELSE Ok(FALSE)

\* What the child does to the file system: rmdir, when it exits with 0, has
\* removed the empty directory it was given, and rm the executable of PATH it
\* was given.
ChildRemoves(program, args, o, wd) ==
    IF program = "rmdir" /\ Len(args) = 1 /\ o.outcome = "exited" /\ o.code = 0
    THEN {Canonical(args[1], wd)} \cap EmptyDirs
    ELSE IF program = "rm" /\ Len(args) = 1 /\ o.outcome = "exited" /\ o.code = 0
    THEN {args[1]} \cap {PathDir \o "/" \o n : n \in PathExecutables}
    ELSE {}

GeneralExecute ==
    /\ Dispatch("General")
    /\ \E o \in ChildOutcomes :
         CASE o.outcome = "spawn_error" ->
                /\ child' = [spawned |-> FALSE, env |-> EmptyMap, outcome |-> o.outcome,
                             code |-> 0]
                /\ Finish(SpawnErrorOutcome(errexit))
                /\ UNCHANGED <<env, touched, removed>>
           [] o.outcome = "wait_error" ->
                /\ child' = [spawned |-> TRUE, env |-> env, outcome |-> o.outcome, code |-> 0]
                /\ Finish(Ok(FALSE))
                /\ UNCHANGED <<env, touched, removed>>
           [] OTHER ->
                /\ child' = [spawned |-> TRUE, env |-> env, outcome |-> o.outcome,
                             code |-> o.code]
                /\ env' = EnvInsert(env, "?", I32ToString(WaitedStatus(o)))
                /\ touched' = {"?"}
                /\ removed' = removed \cup ChildRemoves(cmd.program, cmd.args, o, cwd)
                /\ Finish(WaitedOutcome(o, errexit))
    /\ UNCHANGED <<inputs, mode, config, printed, nread, event, line, snap, restore_env, delete_env, xtrace,
                   errexit, ignoreeof, verbose, dir_stack, cwd, commands, edit_mode, cmd,
                   start_env, assigned, prev>>

(***************************************************************************)
(* Environment builtins.                                                   *)
(***************************************************************************)
\* The pair split at the last "=" instead of the first: faulty variant of
\* ExportPair.
ExportPair_LastEq(var) ==
    IF Find(var, "=") = 0 THEN <<var, "">>
    ELSE LET pos == CHOOSE i \in 1..Len(var) :
                      Ch(var, i) = "=" /\ \A j \in (i + 1)..Len(var) : Ch(var, j) # "="
         IN  <<SubSeq(var, 1, pos - 1), SubSeq(var, pos + 1, Len(var))>>

\* The (k, v) of one argument of export: split at the first "=".
ExportPair(var) ==
    LET pos == Find(var, "=")
    IN  IF pos = 0 THEN <<var, "">>
        ELSE <<SubSeq(var, 1, pos - 1), SubSeq(var, pos + 1, Len(var))>>

\* for var in &self.args { ... env.insert(k, v) }
RECURSIVE ExportAll(_, _, _)
ExportAll(args, i, e) ==
    IF i > Len(args) THEN e
    ELSE ExportAll(args, i + 1, EnvInsert(e, ExportPair(args[i])[1], ExportPair(args[i])[2]))

ExportKey(var) == ExportPair(var)[1]

\* The byte order of the characters of keys, as String::cmp compares them.
ByteOrder ==
    " !\"#$%&'()*+,-./0123456789:;<=>?@ABCDEFGHIJKLMNOPQRSTUVWXYZ[\\]^_abcdefghijklmnopqrstuvwxyz{|}~"

\* Ord for String: a < b.
RECURSIVE StrLess(_, _)
StrLess(a, b) ==
    IF b = "" THEN FALSE
    ELSE IF a = "" THEN TRUE
    ELSE IF Ch(a, 1) = Ch(b, 1) THEN StrLess(SubSeq(a, 2, Len(a)), SubSeq(b, 2, Len(b)))
    ELSE Find(ByteOrder, Ch(a, 1)) < Find(ByteOrder, Ch(b, 1))

\* keys.sort()
RECURSIVE SortKeys(_)
SortKeys(S) ==
    IF S = {} THEN <<>>
    ELSE LET m == CHOOSE x \in S : \A y \in S \ {x} : StrLess(x, y)
         IN  <<m>> \o SortKeys(S \ {m})

\* The lines export prints without arguments.
ExportListing(e) ==
    LET keys == SortKeys(DOMAIN e)
    IN  [i \in 1..Len(keys) |-> keys[i] \o "=" \o e[keys[i]]]

\* ExportCommand::execute
ExportExecute ==
    /\ Dispatch("Export")
    /\ IF ~GetMatches(ExportApp, cmd.args).ok
       THEN Finish(Ok(FALSE)) /\ UNCHANGED <<env, touched, printed>>
       ELSE IF cmd.args = <<>>
       THEN /\ printed' = ExportListing(env)
            /\ Finish(Ok(TRUE))
            /\ UNCHANGED <<env, touched>>
       ELSE /\ env' = ExportAll(cmd.args, 1, env)
            /\ touched' = {ExportKey(cmd.args[i]) : i \in 1..Len(cmd.args)}
            /\ Finish(Ok(TRUE))
            /\ UNCHANGED printed
    /\ UNCHANGED <<inputs, mode, config, removed, nread, event, line, snap, restore_env, delete_env, xtrace,
                   errexit, ignoreeof, verbose, dir_stack, cwd, commands, edit_mode, cmd,
                   child, start_env, assigned, prev>>

\* UnsetCommand::execute
UnsetExecute ==
    /\ Dispatch("Unset")
    /\ IF ~GetMatches(UnsetApp, cmd.args).ok
       THEN Finish(Ok(FALSE)) /\ UNCHANGED <<env, touched>>
       ELSE /\ env' = [k \in DOMAIN env \ {cmd.args[i] : i \in 1..Len(cmd.args)} |-> env[k]]
            /\ touched' = {cmd.args[i] : i \in 1..Len(cmd.args)}
            /\ Finish(Ok(TRUE))
    /\ UNCHANGED <<inputs, mode, config, printed, removed, nread, event, line, snap, restore_env, delete_env, xtrace,
                   errexit, ignoreeof, verbose, dir_stack, cwd, commands, edit_mode, cmd,
                   child, start_env, assigned, prev>>

(***************************************************************************)
(* set: shell options and $-.                                              *)
(***************************************************************************)
\* util::append_value_for_key
append_value_for_key(append, key, map) ==
    LET m0  == IF key \in DOMAIN map THEN map ELSE EnvInsert(map, key, "")
        old == m0[key]
    IN  IF ~ContainsStr(old, append) THEN EnvInsert(m0, key, old \o append) ELSE m0

\* util::replace_value_for_key
replace_value_for_key(replace, with, key, map) ==
    LET m0  == IF key \in DOMAIN map THEN map ELSE EnvInsert(map, key, "")
        old == m0[key]
    IN  IF ContainsStr(old, replace) THEN EnvInsert(m0, key, StrReplace(old, replace, with))
        ELSE m0

\* The part of the session the set command works on.
SetState == [env |-> env, xtrace |-> xtrace, errexit |-> errexit, verbose |-> verbose,
             ignoreeof |-> ignoreeof, edit_mode |-> edit_mode, res |-> Ok(TRUE)]

\* SetOpt that leaves $- as it is: faulty variant of SetOpt.
SetOpt_FlagOnly(st, opt, enable) ==
    IF opt \in {"x", "e", "v"}
    THEN [st EXCEPT
            !.xtrace = IF opt = "x" THEN enable ELSE @,
            !.errexit = IF opt = "e" THEN enable ELSE @,
            !.verbose = IF opt = "v" THEN (IF enable THEN 1 ELSE 0) ELSE @,
            !.res = Ok(TRUE)]
    ELSE [st EXCEPT !.res = Ok(FALSE)]

\* SetCommand::set
SetOpt(st, opt, enable) ==
    IF opt \in {"x", "e", "v"}
    THEN [st EXCEPT
            !.env = IF enable THEN append_value_for_key(opt, "-", st.env)
                    ELSE replace_value_for_key(opt, "", "-", st.env),
            !.xtrace = IF opt = "x" THEN enable ELSE @,
            !.errexit = IF opt = "e" THEN enable ELSE @,
            !.verbose = IF opt = "v" THEN (IF enable THEN 1 ELSE 0) ELSE @,
            !.res = Ok(TRUE)]
    ELSE [st EXCEPT !.res = Ok(FALSE)]

OptionCode(name) ==
    CASE name = "xtrace" -> "x" [] name = "errexit" -> "e" [] name = "verbose" -> "v"
      [] OTHER -> ""

\* SetCommand::execute
SetOutcome(st, args) ==
    LET m == GetMatches(SetApp, args) IN
    IF ~m.ok THEN [st EXCEPT !.res = Ok(FALSE)]
    ELSE IF IsPresent(m, "xtrace") THEN SetOpt(st, "x", TRUE)
    ELSE IF IsPresent(m, "errexit") THEN SetOpt(st, "e", TRUE)
    ELSE IF IsPresent(m, "verbose")
         THEN [st EXCEPT !.env = append_value_for_key("v", "-", st.env),
                         !.verbose = m.occ["verbose"],
                         !.res = Ok(TRUE)]
    ELSE IF IsPresent(m, "option")
         THEN LET name == m.val["option"][1] IN
              IF OptionCode(name) # "" THEN SetOpt(st, OptionCode(name), TRUE)
              ELSE IF name = "emacs" THEN [st EXCEPT !.edit_mode = "emacs"]
              ELSE IF name = "vi" THEN [st EXCEPT !.edit_mode = "vi"]
              ELSE IF name = "ignoreeof" THEN [st EXCEPT !.ignoreeof = TRUE]
              ELSE [st EXCEPT !.res = Ok(FALSE)]
    ELSE IF IsPresent(m, "unset")
         THEN LET opt == m.val["unset"][1] IN
              IF opt \in {"+o", "+option"}
              THEN IF IsPresent(m, "unset-name")
                   THEN LET name == m.val["unset-name"][1] IN
                        IF OptionCode(name) # "" THEN SetOpt(st, OptionCode(name), FALSE)
                        ELSE IF name \in {"emacs", "vi"} THEN [st EXCEPT !.res = Ok(FALSE)]
                        ELSE IF name = "ignoreeof" THEN [st EXCEPT !.ignoreeof = FALSE]
                        ELSE [st EXCEPT !.res = Ok(FALSE)]
                   ELSE [st EXCEPT !.res = Ok(FALSE)]
              ELSE IF ~StartsWith(opt, "+") \/ Len(opt) = 1
                   THEN [st EXCEPT !.res = Ok(FALSE)]
                   ELSE SetOpt(st, SubSeq(opt, 2, Len(opt)), FALSE)
    ELSE st

SetExecute ==
    /\ Dispatch("Set")
    /\ LET st == SetOutcome(SetState, cmd.args) IN
         /\ env' = st.env
         /\ xtrace' = st.xtrace
         /\ errexit' = st.errexit
         /\ verbose' = st.verbose
         /\ ignoreeof' = st.ignoreeof
         /\ edit_mode' = st.edit_mode
         /\ touched' = IF st.env # env THEN {"-"} ELSE {}
         /\ Finish(st.res)
    /\ UNCHANGED <<inputs, mode, config, printed, removed, nread, event, line, snap, restore_env, delete_env, dir_stack,
                   cwd, commands, cmd, child, start_env, assigned, prev>>

(***************************************************************************)
(* Directory builtins.                                                     *)
(***************************************************************************)
\* Prompt::set_cwd: nothing happens when the canonical target is the working
\* directory or the change fails; otherwise $OLDPWD is set and the old
\* working directory is returned.
\* Prompt::set_cwd
set_cwd(dir, wd, e) ==
    LET \* env::current_dir() fails in a removed directory: the fallback is "/"
        oldpwd == IF wd \in removed THEN "/" ELSE wd
        canon  == Canonical(dir, wd)
    IN  IF canon = oldpwd \/ canon = "" \/ canon \notin FsDirs \/ canon \in NoAccessDirs
        THEN [changed |-> FALSE, oldpwd |-> oldpwd, cwd |-> wd, env |-> e]
        ELSE [changed |-> TRUE, oldpwd |-> oldpwd, cwd |-> canon,
              env |-> EnvInsert(e, "OLDPWD", oldpwd)]

\* CdCommand::new: the directory argument, "~" when there is none.
CdPath(args) ==
    LET m == GetMatches(CdApp, args) IN
    IF m.ok /\ IsPresent(m, "directory") THEN m.val["directory"][1] ELSE "~"

\* CdPush without the comparison with the head of the stack: faulty variant
\* of CdPush.
CdPush_NoHeadCheck(stack, oldpwd) == Append(stack, oldpwd)

\* CdCommand::execute after a change of directory: the old working directory
\* is pushed when the stack is empty or its head is another value.
CdPush(stack, oldpwd) ==
    IF stack = <<>> \/ stack[Len(stack)] # oldpwd THEN Append(stack, oldpwd) ELSE stack

\* CdCommand::execute
CdExecute ==
    /\ Dispatch("Cd")
    /\ IF ~GetMatches(CdApp, cmd.args).ok
       THEN Finish(Ok(FALSE)) /\ UNCHANGED <<env, cwd, dir_stack, touched>>
       ELSE LET path == IF CdPath(cmd.args) = "~" THEN HomeDir ELSE CdPath(cmd.args)
                sc   == set_cwd(path, cwd, env)
            IN  /\ env' = sc.env
                /\ cwd' = sc.cwd
                /\ touched' = IF sc.changed THEN {"OLDPWD"} ELSE {}
                /\ dir_stack' = IF sc.changed THEN CdPush(dir_stack, sc.oldpwd) ELSE dir_stack
                /\ Finish(Ok(TRUE))
    /\ UNCHANGED <<inputs, mode, config, printed, removed, nread, event, line, snap, restore_env, delete_env, xtrace,
                   errexit, ignoreeof, verbose, commands, edit_mode, cmd, child,
                   start_env, assigned, prev>>

RECURSIVE ShortPieces(_, _)
\* The short form of print_dir_stack for the entries dirs in the order they
\* are printed, from the entry number num (0 is the first) on.
ShortPieces(dirs, num) ==
    IF num >= Len(dirs) THEN ""
    ELSE (IF num = 0
          THEN IF Len(dirs) = 1 THEN dirs[1] ELSE "[" \o dirs[1] \o "] "
          ELSE IF num < Len(dirs) - 1 THEN dirs[num + 1] \o " "
          ELSE dirs[num + 1]) \o ShortPieces(dirs, num + 1)

\* The long form: one numbered line for each entry.
LongLines(dirs) ==
    [i \in 1..Len(dirs) |->
       I32ToString(i - 1) \o (IF i = 1 THEN ">" ELSE " ") \o "\t" \o dirs[i]]

\* print_dir_stack that walks the stack from its oldest entry: faulty
\* variant of print_dir_stack.
print_dir_stack_OldestFirst(stack, short) ==
    IF stack = <<>> THEN <<>>
    ELSE IF short THEN <<ShortPieces(stack, 0)>> ELSE LongLines(stack)

\* ContextData::print_dir_stack: the lines it prints, the head of the stack
\* first.
print_dir_stack(stack, short) ==
    IF stack = <<>> THEN <<>>
    ELSE LET rev == [i \in 1..Len(stack) |-> stack[Len(stack) + 1 - i]]
         IN  IF short THEN <<ShortPieces(rev, 0)>> ELSE LongLines(rev)

\* PushdCommand::execute
PushdExecute ==
    /\ Dispatch("Pushd")
    /\ LET m == GetMatches(PushdApp, cmd.args) IN
       IF ~m.ok
       THEN Finish(Ok(FALSE)) /\ UNCHANGED <<env, cwd, dir_stack, touched, printed>>
       ELSE IF ~IsPresent(m, "directory")
       THEN /\ printed' = print_dir_stack(dir_stack, TRUE)
            /\ Finish(Ok(TRUE))
            /\ UNCHANGED <<env, cwd, dir_stack, touched>>
       ELSE LET sc == set_cwd(m.val["directory"][1], cwd, env) IN
            /\ env' = sc.env
            /\ cwd' = sc.cwd
            /\ touched' = IF sc.changed THEN {"OLDPWD"} ELSE {}
            /\ dir_stack' = IF sc.changed THEN Append(dir_stack, sc.oldpwd) ELSE dir_stack
            /\ printed' = print_dir_stack(dir_stack', TRUE)
            /\ Finish(Ok(TRUE))
    /\ UNCHANGED <<inputs, mode, config, removed, nread, event, line, snap, restore_env, delete_env, xtrace,
                   errexit, ignoreeof, verbose, commands, edit_mode, cmd, child,
                   start_env, assigned, prev>>

\* util::set_cwd, which popd calls: changes into the directory and records
\* the old working directory in $OLDPWD, as cd and pushd do.
util_set_cwd(dir, wd, e) == set_cwd(dir, wd, e)

\* PopdCommand::execute
PopdExecute ==
    /\ Dispatch("Popd")
    /\ IF dir_stack = <<>>
       THEN /\ printed' = <<"Directory stack is empty">>
            /\ UNCHANGED <<env, cwd, dir_stack, touched>>
       ELSE LET sc == util_set_cwd(dir_stack[Len(dir_stack)], cwd, env) IN
            /\ dir_stack' = SubSeq(dir_stack, 1, Len(dir_stack) - 1)
            /\ env' = sc.env
            /\ cwd' = sc.cwd
            /\ touched' = IF sc.changed THEN {"OLDPWD"} ELSE {}
            /\ printed' = print_dir_stack(dir_stack', TRUE)
    /\ Finish(Ok(TRUE))
    /\ UNCHANGED <<inputs, mode, config, removed, nread, event, line, snap, restore_env, delete_env, xtrace,
                   errexit, ignoreeof, verbose, commands, edit_mode, cmd, child,
                   start_env, assigned, prev>>

\* DirsCommand::execute: prints the stack, changes nothing.
DirsExecute ==
    /\ Dispatch("Dirs")
    /\ LET m == GetMatches(DirsApp, cmd.args) IN
       /\ printed' = IF ~m.ok THEN printed
                     ELSE IF dir_stack = <<>> THEN <<"Directory stack is empty">>
                     ELSE print_dir_stack(dir_stack, ~IsPresent(m, "verbose"))
       /\ Finish(Ok(m.ok))
    /\ UNCHANGED <<inputs, mode, config, removed, nread, event, line, snap, session, cmd, child, ghosts>>

(***************************************************************************)
(* history, hash, rehash.                                                  *)
(***************************************************************************)
\* HistoryCommand::execute: lists, clears or saves the history the line
\* editor keeps; the session context is not touched.
HistoryExecute ==
    /\ Dispatch("History")
    /\ Finish(Ok(GetMatches(HistoryApp, cmd.args).ok))
    /\ UNCHANGED <<inputs, mode, config, printed, removed, nread, event, line, snap, session, cmd, child, ghosts>>

\* The directories a PATH value names: its parts between ':' that are not
\* empty, from position i on, cur being the part read so far.
RECURSIVE PathDirsFrom(_, _, _)
PathDirsFrom(value, i, cur) ==
    IF i > Len(value) THEN (IF cur = "" THEN {} ELSE {cur})
    ELSE IF Ch(value, i) = ":"
    THEN (IF cur = "" THEN {} ELSE {cur}) \cup PathDirsFrom(value, i + 1, "")
    ELSE PathDirsFrom(value, i + 1, cur \o Ch(value, i))

\* The base names of the executable files now at the top level of dir: those
\* of the directory of PATH, and the one executable file of /d.
ExecutablesIn(dir) ==
    IF dir = PathDir THEN {n \in PathExecutables : (PathDir \o "/" \o n) \notin removed}
    ELSE IF dir = "/d" THEN {"a"}
    ELSE {}

\* The scan of the directories of a PATH value.
PathScan(value) == UNION {ExecutablesIn(dir) : dir \in PathDirsFrom(value, 1, "")}

\* PathCommands::rehash: the executables of the directories of the PATH of
\* the process.
\* The cache filled without being cleared first: faulty variant of rehash.
rehash_NoClear == commands \cup PathScan(PathDir)

\* PathCommands::rehash: the cache is cleared and filled with the executable
\* files now in the directories of env::var("PATH"), the PATH of the process
\* environment, which no command of the shell changes.
rehash == PathScan(PathDir)

\* HashCommand::execute
HashExecute ==
    /\ Dispatch("Hash")
    /\ LET m == GetMatches(HashApp, cmd.args) IN
       IF ~m.ok
       THEN Finish(Ok(FALSE)) /\ UNCHANGED <<env, commands, touched>>
       ELSE IF IsPresent(m, "rehash")
       THEN commands' = rehash /\ Finish(Ok(TRUE)) /\ UNCHANGED <<env, touched>>
       ELSE IF IsPresent(m, "command")
       THEN LET success == m.val["command"][1] \in commands IN
            /\ env' = EnvInsert(env, "?", I32ToString(IF success THEN 0 ELSE 1))
            /\ touched' = {"?"}
            /\ Finish(Ok(success))
            /\ UNCHANGED commands
       ELSE Finish(Ok(TRUE)) /\ UNCHANGED <<env, commands, touched>>
    /\ UNCHANGED <<inputs, mode, config, printed, removed, nread, event, line, snap, restore_env, delete_env, xtrace,
                   errexit, ignoreeof, verbose, dir_stack, cwd, edit_mode, cmd, child,
                   start_env, assigned, prev>>

\* RehashCommand::execute
RehashExecute ==
    /\ Dispatch("Rehash")
    /\ commands' = rehash
    /\ Finish(Ok(TRUE))
    /\ UNCHANGED <<inputs, mode, config, printed, removed, nread, event, line, snap, env, restore_env, delete_env, xtrace,
                   errexit, ignoreeof, verbose, dir_stack, cwd, edit_mode, cmd, child,
                   ghosts>>

(***************************************************************************)
(* The session.                                                            *)
(***************************************************************************)
Next ==
    \/ ReadLine
    \/ ReadInterrupted
    \/ ReadEof
    \/ ReadError
    \/ ParseCommand
    \/ ExecuteError
    \/ ExitExecute
    \/ QuitExecute
    \/ GeneralExecute
    \/ ExportExecute
    \/ UnsetExecute
    \/ SetExecute
    \/ CdExecute
    \/ PushdExecute
    \/ PopdExecute
    \/ DirsExecute
    \/ HistoryExecute
    \/ HashExecute
    \/ RehashExecute

Spec == Init /\ [][Next]_vars

(***************************************************************************)
(* Properties of the sessions.                                             *)
(***************************************************************************)
\* command::execute has run on the last input event (the stdin mode ends on
\* EOF and on a read error without calling it).
Executed ==
    /\ pc \in {"read", "done"}
    /\ nread > 0
    /\ event = "line" \/ mode = "interactive"

\* C1: once parse_command has started on the next line, every key the
\* previous line assigned inline (and its command did not change) has the
\* value it had before that line, or is absent if it was absent, and the
\* restore map and the delete set are empty.
C1_InlineUndoneAtNextLine ==
    pc = "restored" =>
        /\ \A K \in prev.assigned \ prev.touched : Lookup(env, K) = Lookup(prev.start, K)
        /\ restore_env = EmptyMap
        /\ delete_env = {}

\* C2: the inline assignments of a line are in force when its command is
\* dispatched and until the next line starts: each assigned key holds its
\* inline value in the session environment at dispatch, and afterwards
\* unless the command wrote it; a spawned child is handed that value; and
\* the record to undo it is still pending.
C2_InlineVisibleAtDispatch ==
    /\ \A K \in DOMAIN assigned : K \in DOMAIN restore_env \cup delete_env
    /\ \A K \in DOMAIN assigned \ touched : Lookup(env, K) = <<assigned[K]>>
    /\ pc = "parsed" /\ event = "line" => touched = {}
    /\ child.spawned => \A K \in DOMAIN assigned : Lookup(child.env, K) = <<assigned[K]>>

C2_Witness ==
    /\ Executed
    /\ child.spawned
    /\ "A" \in DOMAIN assigned
    /\ Lookup(child.env, "A") = <<"1">>
    /\ Lookup(env, "A") = <<"1">>
    /\ Lookup(restore_env, "A") = <<"42">>

\* C3: the whole line is substituted before the inline scan: on the line
\* "A=1 echo $A" the reference expands to the value A had before the line
\* when A was set, and to the inline value, with A recorded for deletion,
\* only when A was absent.
C3_ReferenceSeesPriorValue ==
    (pc = "parsed" /\ event = "line" /\ line = "A=1 echo $A") =>
        /\ cmd.tag = "Ok"
        /\ cmd.program = "echo"
        /\ IF "A" \in DOMAIN start_env
           THEN cmd.args = <<start_env["A"]>> /\ Lookup(restore_env, "A") = <<start_env["A"]>>
           ELSE cmd.args = <<"1">> /\ "A" \in delete_env

RECURSIVE LeadingRun(_, _)
\* The number of words of the maximal leading run of KEY=VALUE words.
LeadingRun(words, i) ==
    IF i > Len(words) \/ ~Contains(words[i], "=") THEN i - 1 ELSE LeadingRun(words, i + 1)

\* C4: exactly the keys of the maximal leading run of KEY=VALUE words of the
\* line are assigned and recorded; a later KEY=VALUE word keeps its place
\* among the arguments (where no quoting regroups the words into arguments)
\* and its key is left as it was in the environment.
C4_OnlyLeadingRunConsumed ==
    (pc = "parsed" /\ event = "line") =>
        LET words == SplitWhitespace(line)
            n     == LeadingRun(words, 1)
            keys  == {SubSeq(words[i], 1, Find(words[i], "=") - 1) : i \in 1..n}
            later == IF Contains(line, "'") \/ Contains(line, "\"") THEN {}
                     ELSE {i \in (n + 2)..Len(words) :
                             Contains(words[i], "=") /\ ~Contains(words[i], "$")}
        IN  /\ DOMAIN restore_env \cup delete_env = keys
            /\ DOMAIN assigned = keys
            /\ \A K \in (DOMAIN env \cup DOMAIN start_env) \ keys :
                   Lookup(env, K) = Lookup(start_env, K)
            /\ \A i \in later :
                   /\ cmd.tag = "Ok"
                   /\ Len(cmd.args) >= i - n - 1
                   /\ cmd.args[i - n - 1] = words[i]

C4_Witness ==
    /\ pc = "parsed"
    /\ line = "A=1 export B=2"
    /\ cmd.program = "export"
    /\ cmd.args = <<"B=2">>
    /\ "B" \notin DOMAIN env
    /\ delete_env = {"A"}
    /\ restore_env = EmptyMap

\* C5: command::execute yields an exit code only for exit, quit, an external
\* command that fails while errexit is set, and EOF while ignoreeof is unset;
\* for NoCommand, CommandArgsSplit, an interrupt and every cd, pushd, popd,
\* dirs, export, set, unset, history, hash and rehash it yields none and the
\* loop goes on.
C5_ExitCodeOnlyFrom ==
    Executed =>
        /\ yielded.some =>
               \/ cmd.tag = "Ok" /\ cmd.kind \in {"Exit", "Quit"}
               \/ /\ cmd.tag = "Ok" /\ cmd.kind = "General"
                  /\ errexit
                  /\ child.outcome # "none"
                  /\ ~(child.outcome = "exited" /\ child.code = 0)
               \/ cmd.tag = "Eof" /\ ~ignoreeof
        /\ (\/ cmd.tag \in {"NoCommand", "CommandArgsSplit"}
            \/ /\ cmd.tag = "Ok"
               /\ cmd.kind \in {"Cd", "Pushd", "Popd", "Dirs", "Export", "Set", "Unset",
                                "History", "Hash", "Rehash"})
               => /\ ~yielded.some
                  /\ mode # "command" => pc = "read"

C5_Witness ==
    /\ Executed
    /\ errexit
    /\ cmd.tag = "Ok"
    /\ cmd.kind = "Cd"
    /\ result.tag = "Ok"
    /\ ~yielded.some
    /\ pc = "read"

\* C6: on end of input at the prompt the REPL terminates with code 0 when
\* ignoreeof is unset; when it is set nothing of the session changes and the
\* loop prompts again.
C6_EofHandling ==
    (mode = "interactive" /\ event = "eof" /\ pc # "parsed") =>
        IF ignoreeof
        THEN pc = "read" /\ ~yielded.some /\ session = snap
        ELSE pc = "done" /\ yielded = Some(0) /\ exit_code = 0

C6_Witness ==
    /\ mode = "interactive"
    /\ event = "eof"
    /\ ignoreeof
    /\ pc = "read"
    /\ session = snap

\* C7: a read error other than interrupt and EOF terminates the REPL, in the
\* interactive loop as in the stdin mode; the loop never prompts again.
C7_ReadErrorTerminates ==
    (event = "error" /\ pc # "parsed") => pc = "done"

\* C8: after an external command ran to completion $? is the exit code of
\* the child in decimal; the result is Err(code) exactly when errexit is set
\* and the code is not zero, which ends the REPL with that code, and
\* Ok(success) otherwise, with which the loop goes on.
C8_ExternalStatus ==
    (Executed /\ cmd.tag = "Ok" /\ cmd.kind = "General" /\ child.outcome = "exited") =>
        /\ Lookup(env, "?") = <<I32ToString(child.code)>>
        /\ IF errexit /\ child.code # 0
           THEN result = Err(child.code) /\ pc = "done" /\ exit_code = child.code
           ELSE /\ result = Ok(child.code = 0)
                /\ ~yielded.some
                /\ mode # "command" => pc = "read"

C8_Witness ==
    /\ Executed
    /\ cmd.kind = "General"
    /\ child.outcome = "exited"
    /\ child.code = 2
    /\ errexit
    /\ Lookup(env, "?") = <<"2">>
    /\ result = Err(2)
    /\ exit_code = 2

\* C9: when the program cannot be started the result is Err(1) if errexit is
\* set, which ends the REPL with 1, and Ok(false) otherwise, with which the
\* loop goes on.
C9_SpawnFailure ==
    (Executed /\ cmd.tag = "Ok" /\ cmd.kind = "General" /\ child.outcome = "spawn_error") =>
        IF errexit
        THEN result = Err(1) /\ pc = "done" /\ exit_code = 1
        ELSE /\ result = Ok(FALSE)
             /\ ~yielded.some
             /\ mode # "command" => pc = "read"

C9_Witness ==
    /\ Executed
    /\ cmd.kind = "General"
    /\ child.outcome = "spawn_error"
    /\ ~errexit
    /\ result = Ok(FALSE)
    /\ pc = "read"

\* C10: exit with one integer argument ends the REPL with that integer
\* whatever $? is; exit without arguments ends it with the integer in $?, or
\* with 0 when $? is absent or not an integer; quit ends it with 0.
C10_ExitCodes ==
    (Executed /\ cmd.tag = "Ok") =>
        /\ (cmd.kind = "Exit" /\ Len(cmd.args) = 1 /\ ParseI32(cmd.args[1]).ok) =>
               pc = "done" /\ exit_code = ParseI32(cmd.args[1]).val
        /\ (cmd.kind = "Exit" /\ cmd.args = <<>>) =>
               /\ pc = "done"
               /\ exit_code = IF "?" \in DOMAIN env /\ ParseI32(env["?"]).ok
                              THEN ParseI32(env["?"]).val ELSE 0
        /\ cmd.kind = "Quit" => pc = "done" /\ exit_code = 0

(***************************************************************************)
(* C11: a builtin that rejects its arguments changes nothing.              *)
(***************************************************************************)
\* The argument parser of a builtin that has one.
C11_AppOf(kind) ==
    CASE kind = "Exit" -> ExitApp [] kind = "Cd" -> CdApp [] kind = "Pushd" -> PushdApp
      [] kind = "Dirs" -> DirsApp [] kind = "Export" -> ExportApp
      [] kind = "Unset" -> UnsetApp [] kind = "History" -> HistoryApp
      [] kind = "Hash" -> HashApp [] kind = "Set" -> SetApp

\* The arguments of set that parse but name no option that can be set or
\* unset this way: an unknown name after -o, a lone "+", a word without "+",
\* an unknown letter after "+", "+o" without a name, with an unknown name or
\* with an edit mode.
C11_SetRejected(args) ==
    LET m == GetMatches(SetApp, args) IN
    /\ m.ok
    /\ ~IsPresent(m, "xtrace") /\ ~IsPresent(m, "errexit") /\ ~IsPresent(m, "verbose")
    /\ IF IsPresent(m, "option")
       THEN m.val["option"][1] \notin
              {"xtrace", "errexit", "verbose", "emacs", "vi", "ignoreeof"}
       ELSE /\ IsPresent(m, "unset")
            /\ IF m.val["unset"][1] \in {"+o", "+option"}
               THEN \/ ~IsPresent(m, "unset-name")
                    \/ m.val["unset-name"][1] \notin
                         {"xtrace", "errexit", "verbose", "ignoreeof"}
               ELSE m.val["unset"][1] \notin {"+x", "+e", "+v"}

\* The command about to be executed is a builtin whose arguments are not
\* valid.
C11_Rejected ==
    /\ cmd.tag = "Ok"
    /\ cmd.kind \in {"Exit", "Cd", "Pushd", "Dirs", "Export", "Unset", "History", "Hash", "Set"}
    /\ \/ ~GetMatches(C11_AppOf(cmd.kind), cmd.args).ok
       \/ /\ cmd.kind = "Exit"
          /\ IsPresent(GetMatches(ExitApp, cmd.args), "code")
          /\ ~ParseI32(GetMatches(ExitApp, cmd.args).val["code"][1]).ok
       \/ cmd.kind = "Set" /\ C11_SetRejected(cmd.args)

\* C11: executing a builtin whose arguments are not valid returns Ok(false),
\* yields no exit code, so that the loop (when there is one: not with -c)
\* reads the next line, and leaves the
\* environment, the options, the edit mode, the directory stack and the
\* command cache as they were.
C11_InvalidArgsChangeNothing ==
    [][(pc = "parsed" /\ C11_Rejected)
         => /\ result' = Ok(FALSE)
            /\ yielded' = None
            /\ mode # "command" => pc' = "read"
            /\ session' = session]_vars

\* A rejected builtin has been executed in a session that earlier lines
\* changed.
C11_Witness ==
    /\ Executed
    /\ C11_Rejected
    /\ result = Ok(FALSE)
    /\ xtrace /\ dir_stack # <<>>

(***************************************************************************)
(* C12, C13: $- and the options x, e, v.                                   *)
(***************************************************************************)
\* The text $- stands for.
Dash == IF "-" \in DOMAIN env THEN env["-"] ELSE ""

\* A set command has toggled an option: the last command was a set that
\* succeeded, or an option is on, which only set does.
C12_Toggled ==
    \/ cmd.tag = "Ok" /\ cmd.kind = "Set" /\ result = Ok(TRUE)
    \/ xtrace \/ errexit \/ verbose > 0

\* C12: between commands, once set has toggled an option, $- holds x exactly
\* when xtrace is on, e exactly when errexit is on, v exactly when verbose is
\* above 0, no letter twice and no other character, whatever export, unset,
\* inline assignments or other commands ran.
C12_DashMirrorsOptions ==
    (Executed /\ C12_Toggled)
        => /\ Contains(Dash, "x") <=> xtrace
           /\ Contains(Dash, "e") <=> errexit
           /\ Contains(Dash, "v") <=> (verbose > 0)
           /\ \A i \in 1..Len(Dash) : Ch(Dash, i) \in {"x", "e", "v"}
           /\ \A i, j \in 1..Len(Dash) : Ch(Dash, i) = Ch(Dash, j) => i = j

\* The option letters, their names, and whether the option is on.
C13_Name(c) == CASE c = "x" -> "xtrace" [] c = "e" -> "errexit" [] c = "v" -> "verbose"
C13_On(c, xt, ee, vb) == CASE c = "x" -> xt [] c = "e" -> ee [] c = "v" -> vb > 0

\* The arguments of set that enable and that disable the option c, in the
\* short and in the long form.
C13_Enable(c) == {<<"-" \o c>>, <<"-o", C13_Name(c)>>, <<"--option", C13_Name(c)>>}
C13_Disable(c) == {<<"+" \o c>>, <<"+o", C13_Name(c)>>, <<"+option", C13_Name(c)>>}

\* C13: for each of x, e, v, in the short and in the long form, the step that
\* executes set -c leaves $- containing c and the option on, and the step
\* that executes set +c leaves $- without c (empty when c was all it held)
\* and the option off.
C13_ToggleUpdatesBoth ==
    [][\A c \in {"x", "e", "v"} :
         /\ (pc = "parsed" /\ cmd.tag = "Ok" /\ cmd.kind = "Set" /\ cmd.args \in C13_Enable(c))
              => /\ "-" \in DOMAIN env' /\ Contains(env'["-"], c)
                 /\ C13_On(c, xtrace', errexit', verbose')
         /\ (pc = "parsed" /\ cmd.tag = "Ok" /\ cmd.kind = "Set" /\ cmd.args \in C13_Disable(c))
              => /\ "-" \in DOMAIN env' /\ ~Contains(env'["-"], c)
                 /\ Dash = c => env'["-"] = ""
                 /\ ~C13_On(c, xtrace', errexit', verbose')]_vars

\* errexit, enabled by an earlier line with e in $-, has been disabled by
\* set +o errexit.
C13_Witness ==
    /\ Executed
    /\ cmd.kind = "Set" /\ cmd.args = <<"+o", "errexit">>
    /\ snap[5] /\ "-" \in DOMAIN snap[1] /\ Contains(snap[1]["-"], "e")
    /\ ~errexit /\ ~Contains(Dash, "e")

(***************************************************************************)
(* C14 .. C17: cd, pushd, popd and the directory stack.                    *)
(***************************************************************************)
\* C14: whatever cd, pushd and popd commands ran, failing ones included, the
\* two topmost entries of the directory stack are never equal: a push of the
\* value at the top leaves the stack as it is.
C14_NoDuplicateTop ==
    Len(dir_stack) >= 2 => dir_stack[Len(dir_stack)] # dir_stack[Len(dir_stack) - 1]

C15_Left == IF cwd \in removed THEN "/" ELSE cwd

C16_Target ==
    LET app  == IF cmd.kind = "Cd" THEN CdApp ELSE PushdApp
        m    == GetMatches(app, cmd.args)
        path == IF ~m.ok THEN ""
                ELSE IF IsPresent(m, "directory")
                     THEN (IF cmd.kind = "Cd" /\ m.val["directory"][1] = "~" THEN HomeDir
                           ELSE m.val["directory"][1])
                ELSE IF cmd.kind = "Cd" THEN HomeDir ELSE ""
        dir  == Canonical(path, cwd)
    IN  IF dir \in FsDirs \ NoAccessDirs THEN dir ELSE ""

\* C16: a cd or pushd whose canonical target is a directory other than the
\* working directory changes into it and sets $OLDPWD to the directory left;
\* when the target is the working directory, or the change fails, the
\* working directory, $OLDPWD and the directory stack stay as they are.
C16_OldpwdIffChanged ==
    [][(pc = "parsed" /\ cmd.tag = "Ok" /\ cmd.kind \in {"Cd", "Pushd"})
         => IF C16_Target # "" /\ C16_Target # cwd
            THEN /\ cwd' = C16_Target
                 /\ Lookup(env', "OLDPWD") = <<cwd>>
            ELSE /\ cwd' = cwd
                 /\ Lookup(env', "OLDPWD") = Lookup(env, "OLDPWD")
                 /\ dir_stack' = dir_stack]_vars

\* C17: popd on an empty directory stack leaves the stack, the working
\* directory and $OLDPWD as they are and returns Ok(true); on a stack that is
\* not empty it removes the top entry and no other, and the working directory
\* becomes that entry.
C17_PopdPopsAndEnters ==
    [][(pc = "parsed" /\ cmd.tag = "Ok" /\ cmd.kind = "Popd")
         => IF dir_stack = <<>>
            THEN /\ dir_stack' = <<>>
                 /\ cwd' = cwd
                 /\ Lookup(env', "OLDPWD") = Lookup(env, "OLDPWD")
                 /\ result' = Ok(TRUE)
            ELSE /\ dir_stack' = SubSeq(dir_stack, 1, Len(dir_stack) - 1)
                 /\ cwd' = dir_stack[Len(dir_stack)]]_vars

(***************************************************************************)
(* C18 .. C20: the word list, its quoting and the aliases.                 *)
(***************************************************************************)
\* The line has no words, or after the substitution of its variables (in the
\* iteration order ord of the environment) all its words are assignments.
C18_NoWords(ord) ==
    \/ Trim(line) = ""
    \/ LET words == SplitWhitespace(ReplaceVarsOrd(Trim(line), env, ord))
       IN  LeadingRun(words, 1) = Len(words)

\* C18: parse_command gives NoCommand, and no command, exactly when the
\* trimmed line is empty or no word is left once the variables are
\* substituted and the inline assignments taken out; executing that result
\* yields no exit code, changes nothing, and the loop reads the next line.
C18_NoCommandIffNoWords ==
    [][/\ pc = "restored"
          => /\ cmd'.tag = "NoCommand"
                  => \E o \in OrdersFor(<<Trim(line)>>, env) : C18_NoWords(o)
             /\ (\A o \in OrdersFor(<<Trim(line)>>, env) : C18_NoWords(o))
                  => cmd'.tag = "NoCommand"
       /\ (pc = "parsed" /\ cmd.tag = "NoCommand")
          => /\ yielded' = None
             /\ mode # "command" => pc' = "read"
             /\ result' = NoResult
             /\ session' = session]_vars

\* A line of one variable that stands for nothing gave NoCommand and the loop
\* reads on.
C18_Witness ==
    /\ Executed /\ pc = "read"
    /\ event = "line" /\ line \in {"$-", "${-}"}
    /\ cmd.tag = "NoCommand"
    /\ yielded = None

RECURSIVE C19_Open(_, _, _, _)
\* The text s, read from position i on, ends inside a quoted group or right
\* after a backslash that nothing escapes; q is the quote that is open ("" for
\* none), start tells that a word starts at i.  A "#" that starts a word
\* makes the rest a comment.
C19_Open(s, i, q, start) ==
    IF i > Len(s) THEN q # ""
    ELSE LET c == Ch(s, i) IN
         IF q = "'" THEN C19_Open(s, i + 1, IF c = "'" THEN "" ELSE q, FALSE)
         ELSE IF c = "\\" THEN (IF i = Len(s) THEN TRUE ELSE C19_Open(s, i + 2, q, FALSE))
         ELSE IF q = "\"" THEN C19_Open(s, i + 1, IF c = "\"" THEN "" ELSE q, FALSE)
         ELSE IF c = "#" /\ start THEN FALSE
         ELSE IF c \in {"'", "\""} THEN C19_Open(s, i + 1, c, FALSE)
         ELSE C19_Open(s, i + 1, "", c \in Whitespace)

\* The argument words of the line, joined again with blanks, for the
\* iteration orders o1 and o2 of the environment; <<>> when the line has no
\* word.
C19_Scan(o1) ==
    InlineScan(SplitWhitespace(substitute_line(Trim(line), env, o1)), 1,
               env, restore_env, delete_env, EmptyMap)
C19_Joined(o1, o2) ==
    LET rest   == C19_Scan(o1).rest
        values == [i \in 1..Len(rest) |-> ReplaceVarsOrd(rest[i], C19_Scan(o1).env, o2)]
        subst  == AliasSubst(values)
        tilde  == [i \in 1..Len(subst) |-> TildeExpand(subst[i])]
    IN  IF rest = <<>> THEN <<>> ELSE <<Join(Tail(GlobExpand(tilde, cwd)), " ")>>

\* Whatever the iteration order, the line has words and its joined arguments
\* end inside a quoted group or after a backslash.
C19_Unbalanced ==
    /\ Trim(line) # ""
    /\ \A o1 \in OrdersFor(<<Trim(line)>>, env) :
         \A o2 \in OrdersFor(C19_Scan(o1).rest, C19_Scan(o1).env) :
            /\ C19_Joined(o1, o2) # <<>>
            /\ C19_Open(C19_Joined(o1, o2)[1], 1, "", TRUE)

\* C19: when the joined arguments end inside a single or double quoted group
\* or after a backslash that nothing escapes, parse_command gives
\* CommandArgsSplit and no command; executing that result starts nothing,
\* yields no exit code, and the loop reads the next line.
C19_UnbalancedQuoting ==
    [][/\ (pc = "restored" /\ C19_Unbalanced) => cmd'.tag = "CommandArgsSplit"
       /\ (pc = "parsed" /\ cmd.tag = "CommandArgsSplit")
          => /\ yielded' = None
             /\ mode # "command" => pc' = "read"
             /\ result' = NoResult
             /\ child' = child
             /\ xtrace' = xtrace /\ errexit' = errexit /\ dir_stack' = dir_stack
             /\ cwd' = cwd /\ env' = env]_vars

\* A line whose argument ends after a backslash gave CommandArgsSplit and the
\* loop reads on.
C19_Witness ==
    /\ Executed /\ pc = "read"
    /\ line = "echo x\\"
    /\ cmd.tag = "CommandArgsSplit"
    /\ child = NoChild /\ yielded = None

\* The line is made of plain words: nothing to substitute, to quote or to
\* expand but an alias.
C20_Plain == \A c \in {"$", "'", "\"", "\\", "~", "*", "#"} : ~Contains(line, c)

\* The words of the line after its leading run of KEY=VALUE words.
C20_Words ==
    SubSeq(SplitWhitespace(line), LeadingRun(SplitWhitespace(line), 1) + 1,
           Len(SplitWhitespace(line)))

\* C20: when the first word of the line, after the inline assignments, is a
\* key of the alias table, the program and the arguments are the words of the
\* alias value followed by the other words of the line in their order; the
\* result is not looked up again, even when it starts with an alias, and an
\* alias that is not the first word stays as it is.
C20_AliasOnceFirstWordOnly ==
    (pc = "parsed" /\ event = "line" /\ C20_Plain /\ C20_Words # <<>>)
        => LET first == C20_Words[1]
               words == IF first \in DOMAIN Aliases
                        THEN SplitWhitespace(Aliases[first]) \o Tail(C20_Words)
                        ELSE C20_Words
           IN  /\ cmd.tag = "Ok"
               /\ IF AutoCd /\ IsDir(words[1], cwd)
                  THEN cmd.program = "cd" /\ cmd.args = <<words[1]>>
                  ELSE cmd.program = words[1] /\ cmd.args = Tail(words)

\* The alias ll, whose value starts with the alias l, was expanded once; an
\* alias given as an argument was left alone.
C20_Witness ==
    /\ pc = "parsed"
    /\ \/ line = "A=1 ll" /\ cmd.program = "l" /\ cmd.args = <<"-a">>
       \/ line = "echo ll" /\ cmd.program = "echo" /\ cmd.args = <<"ll">>

(***************************************************************************)
(* C21: auto_cd.                                                           *)
(***************************************************************************)
\* The words of a line of plain words (nothing to substitute, to assign, to
\* quote or to expand, no alias), which are the tokens that remain.
C21_PlainWords ==
    /\ \A c \in {"$", "'", "\"", "\\", "~", "*", "#", "="} : ~Contains(line, c)
    /\ SplitWhitespace(line) # <<>>
    /\ SplitWhitespace(line)[1] \notin DOMAIN Aliases

\* C21: a line is rewritten to the program cd with its token as the only
\* argument only if auto_cd is enabled, one token remains and that token
\* names a directory; a line whose first token names a directory and which
\* has further arguments keeps its program and arguments; with auto_cd
\* disabled no line is rewritten.
C21_AutoCdOnlyForLoneDirectory ==
    (pc = "parsed" /\ event = "line" /\ C21_PlainWords)
        => LET words     == SplitWhitespace(line)
               rewritten == cmd.tag = "Ok" /\ cmd.program = "cd" /\ words[1] # "cd"
           IN  /\ rewritten => /\ config.auto_cd
                               /\ Len(words) = 1
                               /\ IsDir(words[1], cwd)
                               /\ cmd.args = <<words[1]>>
               /\ (Len(words) > 1 /\ IsDir(words[1], cwd))
                    => cmd.tag = "Ok" /\ cmd.program = words[1] /\ cmd.args = Tail(words)
               /\ ~config.auto_cd => ~rewritten

(***************************************************************************)
(* C22: the names of the builtins.                                         *)
(***************************************************************************)
\* The builtin each name of the builtin surface stands for.
C22_Builtin ==
    [n \in {"cd", "pushd", "popd", "dirs", "exit", "quit", "export", "set", "unset",
            "history", "hist", "h", "hash", "rehash"} |->
       CASE n = "cd" -> "Cd" [] n = "pushd" -> "Pushd" [] n = "popd" -> "Popd"
         [] n = "dirs" -> "Dirs" [] n = "exit" -> "Exit" [] n = "quit" -> "Quit"
         [] n = "export" -> "Export" [] n = "set" -> "Set" [] n = "unset" -> "Unset"
         [] n \in {"history", "hist", "h"} -> "History" [] n = "hash" -> "Hash"
         [] n = "rehash" -> "Rehash"]

\* C22: command::parse gives, for the program name of every command parsed
\* from a line, the builtin of that name when the name is one of the fourteen
\* names of the builtins; for every other name it gives the General command,
\* which carries the program and the arguments as they are.
C22_NamesToBuiltins ==
    (pc = "parsed" /\ event = "line" /\ cmd.tag = "Ok")
        => IF cmd.program \in DOMAIN C22_Builtin
           THEN BuiltinKind(cmd.program) = C22_Builtin[cmd.program]
           ELSE /\ BuiltinKind(cmd.program) = "General" /\ cmd.kind = "General"
                /\ (C21_PlainWords /\ ~IsDir(SplitWhitespace(line)[1], cwd))
                      => /\ cmd.program = SplitWhitespace(line)[1]
                         /\ cmd.args = Tail(SplitWhitespace(line))

(***************************************************************************)
(* C23 .. C25: the substitution of variables, as parse_command applies it  *)
(* to the line it has read.                                                *)
(***************************************************************************)
RECURSIVE C23_Bare(_, _, _)
\* The text s from position i on, with every bare token $T (the maximal run
\* of the variable pattern) replaced by e[T] when T is a key of e and left as
\* it is otherwise.
C23_Bare(s, i, e) ==
    IF i > Len(s) THEN ""
    ELSE IF Ch(s, i) = "$"
         THEN LET j == VarRunEnd(s, i)
                  T == SubSeq(s, i + 1, j)
              IN  (IF T \in DOMAIN e THEN e[T] ELSE SubSeq(s, i, j)) \o C23_Bare(s, j + 1, e)
         ELSE Ch(s, i) \o C23_Bare(s, i + 1, e)

\* C23: whatever the iteration order of the map, a bare token $T of the text
\* is replaced by env[T] exactly when T is a key, and left as it is
\* otherwise: a key that is a strict prefix of T replaces no part of it, and
\* the key of the full length wins.
C23_BareTokenExactKey ==
    (pc = "restored" /\ ~Contains(line, "{"))
        => \A o \in OrdersFor(<<Trim(line)>>, env) :
              ReplaceVarsOrd(Trim(line), env, o) = C23_Bare(Trim(line), 1, env)

\* C24: the result of the substitution is the same for every iteration order
\* of the map, also when a value holds $NAME or ${NAME} of another key.
C24_OrderIndependent ==
    pc = "restored"
        => \A o1, o2 \in OrdersFor(<<Trim(line)>>, env) :
              ReplaceVarsOrd(Trim(line), env, o1) = ReplaceVarsOrd(Trim(line), env, o2)

RECURSIVE C25_Bracket(_, _, _)
\* The text s from position i on, with every ${K} replaced by e[K] when K is
\* a key of e and left as it is otherwise.
C25_Bracket(s, i, e) ==
    IF i > Len(s) THEN ""
    ELSE LET close == IF \E j \in (i + 2)..Len(s) : Ch(s, j) = "}"
                      THEN CHOOSE j \in (i + 2)..Len(s) :
                             Ch(s, j) = "}" /\ \A k \in (i + 2)..(j - 1) : Ch(s, k) # "}"
                      ELSE 0
         IN  IF MatchesAt(s, i, "${") /\ close > 0 /\ SubSeq(s, i + 2, close - 1) \in DOMAIN e
             THEN e[SubSeq(s, i + 2, close - 1)] \o C25_Bracket(s, close + 1, e)
             ELSE Ch(s, i) \o C25_Bracket(s, i + 1, e)

\* Every "$" of the text opens a bracketed form.
C25_OnlyBracketed(s) == \A i \in 1..Len(s) : Ch(s, i) = "$" => MatchesAt(s, i, "${")

\* C25: whatever the iteration order of the map, every ${K} of the text is
\* replaced by env[K] when K is a key, whatever stands before and after it,
\* and left as it is when K is no key.
C25_BracketedAlways ==
    (pc = "restored" /\ C25_OnlyBracketed(line))
        => \A o \in OrdersFor(<<Trim(line)>>, env) :
              ReplaceVarsOrd(Trim(line), env, o) = C25_Bracket(Trim(line), 1, env)

(***************************************************************************)
(* C26: export.                                                            *)
(***************************************************************************)
\* The text of an argument before its first "=", and the text after it.
C26_Key(a) == IF Contains(a, "=") THEN SubSeq(a, 1, Find(a, "=") - 1) ELSE a
C26_Value(a) == IF Contains(a, "=") THEN SubSeq(a, Find(a, "=") + 1, Len(a)) ELSE ""

\* The environment after the arguments were set in order: a key the
\* arguments name has the value of the last argument that names it, every
\* other key is as in e.
C26_Set(args, e) ==
    LET keys == {C26_Key(args[i]) : i \in 1..Len(args)}
        last(k) == CHOOSE i \in 1..Len(args) :
                      C26_Key(args[i]) = k /\ \A j \in (i + 1)..Len(args) : C26_Key(args[j]) # k
    IN  [k \in DOMAIN e \cup keys |-> IF k \in keys THEN C26_Value(args[last(k)]) ELSE e[k]]

\* The lines p list every entry of e once as K=V, in ascending order of the keys.
C26_Listed(p, e) ==
    /\ Len(p) = Cardinality(DOMAIN e)
    /\ \A k \in DOMAIN e : \E i \in 1..Len(p) : p[i] = k \o "=" \o e[k]
    /\ \A i, j \in 1..Len(p) :
          i < j => \E k1, k2 \in DOMAIN e :
                     /\ p[i] = k1 \o "=" \o e[k1]
                     /\ p[j] = k2 \o "=" \o e[k2]
                     /\ StrLess(k1, k2)

\* export without arguments changes nothing and lists the entries.
C26_ListStep ==
    (Dispatch("Export") /\ cmd.args = <<>>)
        => /\ env' = env
           /\ session' = session
           /\ result' = Ok(TRUE)
           /\ C26_Listed(printed', env)

\* C26 as stated: export with arguments sets, for each argument in order,
\* the key before the first "=" to the text after it ("" without "="),
\* leaves every other key unchanged and returns Ok(true); export without
\* arguments changes nothing and lists all entries as K=V in ascending order
\* of the keys.
C26_ExportSetsEachArgument ==
    [][/\ (Dispatch("Export") /\ cmd.args # <<>>)
            => env' = C26_Set(cmd.args, env) /\ result' = Ok(TRUE)
       /\ C26_ListStep]_vars

\* C26, amended: the same for the arguments the argument parser of export
\* accepts; with an argument it rejects (one of two or more characters that
\* starts with "-", before any "--") export changes nothing and returns
\* Ok(false).
C26_ExportSetsAcceptedArguments ==
    [][/\ (Dispatch("Export") /\ cmd.args # <<>> /\ GetMatches(ExportApp, cmd.args).ok)
            => env' = C26_Set(cmd.args, env) /\ result' = Ok(TRUE)
       /\ (Dispatch("Export") /\ ~GetMatches(ExportApp, cmd.args).ok)
            => session' = session /\ result' = Ok(FALSE)
       /\ C26_ListStep]_vars

\* export has set B from an argument with two "=" and C from one without,
\* after an export that set A twice.
C26_Witness ==
    /\ Executed
    /\ cmd.tag = "Ok" /\ cmd.kind = "Export" /\ cmd.args = <<"B=2=3", "C">>
    /\ result = Ok(TRUE)
    /\ "B" \in DOMAIN env /\ env["B"] = "2=3"
    /\ "C" \in DOMAIN env /\ env["C"] = ""
    /\ "A" \in DOMAIN env /\ env["A"] = "2"

(***************************************************************************)
(* C27: hash.                                                              *)
(***************************************************************************)
\* The executables that are in the directory of PATH now.
C27_OnPath == {n \in {"ls", "echo", "false"} : ("/bin/" \o n) \notin removed}

\* C27: hash cmd returns Ok(true) and sets $? to "0" when cmd is in the
\* cache, returns Ok(false) and sets $? to "1" when it is not, and leaves the
\* cache as it is; hash without arguments changes neither the cache nor $?
\* and returns Ok(true); hash -r makes the cache the executables now on PATH
\* and returns Ok(true).
C27_HashReportsCache ==
    [][Dispatch("Hash")
         => /\ (Len(cmd.args) = 1 /\ ~StartsWith(cmd.args[1], "-"))
                 => /\ commands' = commands
                    /\ IF cmd.args[1] \in commands
                       THEN result' = Ok(TRUE) /\ env' = EnvInsert(env, "?", "0")
                       ELSE result' = Ok(FALSE) /\ env' = EnvInsert(env, "?", "1")
            /\ cmd.args = <<>>
                 => commands' = commands /\ env' = env /\ result' = Ok(TRUE)
            /\ cmd.args = <<"-r">>
                 => commands' = C27_OnPath /\ env' = env /\ result' = Ok(TRUE)]_vars

\* hash -r has dropped from the cache an executable that was removed from
\* PATH.
C27_Witness ==
    /\ Executed
    /\ cmd.tag = "Ok" /\ cmd.kind = "Hash" /\ cmd.args = <<"-r">>
    /\ result = Ok(TRUE)
    /\ "/bin/false" \in removed
    /\ "false" \in snap[10] /\ "false" \notin commands

(***************************************************************************)
(* C28: glob expansion.                                                    *)
(***************************************************************************)
\* The line is made of plain words and globs: no variable, quote, escape,
\* tilde, comment or assignment, and its first word is neither an alias nor
\* a directory.
C28_Plain ==
    /\ \A c \in {"$", "'", "\"", "\\", "~", "#", "="} : ~Contains(line, c)
    /\ SplitWhitespace(line) # <<>>
    /\ SplitWhitespace(line)[1] \notin DOMAIN Aliases
    /\ ~IsDir(SplitWhitespace(line)[1], cwd)

\* The existing paths a token matches; none when it is no well-formed pattern.
C28_Matches(t, wd) == IF PatternOk(t) THEN GlobFrom(t, 1, wd) ELSE <<>>

RECURSIVE C28_Expected(_, _)
\* The tokens with every token that contains "*" and has matches replaced in
\* place by its matches.
C28_Expected(tokens, wd) ==
    IF tokens = <<>> THEN <<>>
    ELSE (IF Contains(tokens[1], "*") /\ C28_Matches(tokens[1], wd) # <<>>
          THEN C28_Matches(tokens[1], wd)
          ELSE <<tokens[1]>>) \o C28_Expected(Tail(tokens), wd)

\* C28: glob expansion never fails or aborts: parse_command returns the
\* command whose words are the tokens of the line, where a token that
\* contains "*" and has matches is replaced in place by its matches, and a
\* token without matches, not well formed as a pattern, or without "*" is
\* kept as it is.
C28_GlobNeverFails ==
    (pc \in {"parsed", "panicked"} /\ event = "line" /\ C28_Plain)
        => /\ pc = "parsed"
           /\ cmd.tag = "Ok"
           /\ <<cmd.program>> \o cmd.args = C28_Expected(SplitWhitespace(line), cwd)

(***************************************************************************)
(* C29: the environment at the start of the session.                       *)
(***************************************************************************)
\* C29: when the session starts, every key of the config env other than ?
\* and - holds the config value substituted against the inherited
\* environment (not against one that holds config entries already), every
\* other inherited key is as inherited, $? is "0" and $- is "v" if verbose
\* is more than 0 and "" otherwise, whatever the inherited environment and
\* the config hold for ? and -.
C29_SetupEnv ==
    nread = 0
        => /\ DOMAIN env = DOMAIN config.inherited \cup DOMAIN config.env \cup {"?", "-"}
           /\ \E o \in OrdersFor(ValuesOf(config.env), config.inherited) :
                 \A k \in DOMAIN config.env \ {"?", "-"} :
                    env[k] = ReplaceVarsOrd(config.env[k], config.inherited, o)
           /\ \A k \in DOMAIN config.inherited \ (DOMAIN config.env \cup {"?", "-"}) :
                 env[k] = config.inherited[k]
           /\ env["?"] = "0"
           /\ env["-"] = IF config.verbose > 0 THEN "v" ELSE ""

\* A session has started with -v, an inherited environment and a config
\* that both hold A, and a config value that refers to A.
C29_Witness ==
    /\ nread = 0
    /\ config.verbose > 0
    /\ {"A", "HELLO", "?", "-"} \subseteq DOMAIN config.env
    /\ "A" \in DOMAIN config.inherited
    /\ env["A"] = "1"
    /\ env["-"] = "v"

(***************************************************************************)
(* C30: errexit.                                                           *)
(***************************************************************************)
\* C30: with errexit enabled, a dispatched command that reports its status
\* in $? (an external command, hash with a command) and leaves a status
\* other than "0" there terminates the REPL at once with that status.
C30_ErrexitTerminates ==
    [][(/\ pc = "parsed" /\ cmd.tag = "Ok" /\ cmd.kind \in {"General", "Hash"}
        /\ errexit
        /\ touched' = {"?"}
        /\ env'["?"] # "0")
          => /\ pc' = "done"
             /\ yielded' = Some(ParseI32(env'["?"]).val)
             /\ exit_code' = ParseI32(env'["?"]).val]_vars

(***************************************************************************)
(* C31: quoted arguments.                                                  *)
(***************************************************************************)
\* The line is the word echo followed by one group in the quotes q, with
\* neither q nor a backslash between them.
C31_OneGroup(q) ==
    /\ Len(line) >= 7
    /\ SubSeq(line, 1, 6) = "echo " \o q
    /\ Ch(line, Len(line)) = q
    /\ \A i \in 7..(Len(line) - 1) : Ch(line, i) \notin {q, "\\"}

\* C31: the argument made from a single- or double-quoted group is the text
\* between the quotes of the line as it was typed: runs of blanks, the other
\* quote, $NAME, "*", "~" and KEY=VALUE inside the quotes are not altered.
C31_QuotedGroupIsLiteral ==
    (pc \in {"parsed", "panicked"} /\ event = "line"
       /\ (C31_OneGroup("'") \/ C31_OneGroup("\"")))
        => /\ pc = "parsed"
           /\ cmd.tag = "Ok"
           /\ cmd.program = "echo"
           /\ cmd.args = <<SubSeq(line, 7, Len(line) - 1)>>

(***************************************************************************)
(* C32: dirs.                                                              *)
(***************************************************************************)
\* The entries of the stack, the most recent first.
C32_Recent == [i \in 1..Len(dir_stack) |-> dir_stack[Len(dir_stack) + 1 - i]]

\* The text s ends with the text e.
C32_EndsWith(s, e) == Len(e) <= Len(s) /\ SubSeq(s, Len(s) - Len(e) + 1, Len(s)) = e

\* dirs -v leaves the stack and prints one entry per line, the most recent
\* first and the oldest last.
C32_Verbose ==
    (Dispatch("Dirs") /\ cmd.args = <<"-v">> /\ dir_stack # <<>>)
        => /\ dir_stack' = dir_stack
           /\ Len(printed') = Len(dir_stack)
           /\ \A i \in 1..Len(dir_stack) : C32_EndsWith(printed'[i], C32_Recent[i])

\* C32 as stated: dirs never changes the stack; in the short form it prints
\* all entries on one line, the most recent first, separated by blanks, with
\* the top entry in brackets for every stack that is not empty, a stack of
\* one entry included; with -v it prints one entry per line.
C32_DirsBracketsTop ==
    [][/\ Dispatch("Dirs") => dir_stack' = dir_stack
       /\ (Dispatch("Dirs") /\ cmd.args = <<>> /\ dir_stack # <<>>)
            => printed' = <<Join(<<"[" \o C32_Recent[1] \o "]">> \o Tail(C32_Recent), " ")>>
       /\ C32_Verbose]_vars

\* C32, amended: the top entry is in brackets when the stack has two or more
\* entries; a stack of one entry is printed as that entry alone.
C32_DirsBracketsTopOfSeveral ==
    [][/\ Dispatch("Dirs") => dir_stack' = dir_stack
       /\ (Dispatch("Dirs") /\ cmd.args = <<>> /\ Len(dir_stack) >= 2)
            => printed' = <<Join(<<"[" \o C32_Recent[1] \o "]">> \o Tail(C32_Recent), " ")>>
       /\ (Dispatch("Dirs") /\ cmd.args = <<>> /\ Len(dir_stack) = 1)
            => printed' = <<dir_stack[1]>>
       /\ C32_Verbose]_vars

\* dirs has shown a stack of two entries in the short form.
C32_Witness ==
    /\ Executed
    /\ cmd.tag = "Ok" /\ cmd.kind = "Dirs" /\ cmd.args = <<>>
    /\ dir_stack = <<"/", "/d">>
    /\ printed = <<"[/d] /">>

(***************************************************************************)
(* C33: export and unset persist.                                          *)
(***************************************************************************)
\* C33: when the next line starts, after restore_env has run, every key the
\* export or unset of the line before wrote or removed is as that command
\* left it: restore_env neither reverts an exported value nor re-creates an
\* unset key.
C33_ExportUnsetPersist ==
    (pc = "restored" /\ cmd.tag = "Ok" /\ cmd.kind \in {"Export", "Unset"}
       /\ result = Ok(TRUE))
        => \A K \in prev.touched : Lookup(env, K) = Lookup(snap[1], K)

(***************************************************************************)
(* C34: the restore map and the delete set.                                *)
(***************************************************************************)
\* C34: in every state no key is in both the restore map and the delete
\* set; once a line is parsed, every key assigned inline on it is in the
\* restore map with the value it had before the line when it existed then,
\* and in the delete set when it did not.
C34_RestoreDeleteDisjoint ==
    /\ DOMAIN restore_env \cap delete_env = {}
    /\ (pc = "parsed" /\ event = "line")
         => \A K \in DOMAIN assigned :
               IF K \in DOMAIN start_env
               THEN /\ K \in DOMAIN restore_env
                    /\ restore_env[K] = start_env[K]
                    /\ K \notin delete_env
               ELSE /\ K \in delete_env
                    /\ K \notin DOMAIN restore_env

(***************************************************************************)
(* C35: the status of a child that ends without an exit code.              *)
(***************************************************************************)
\* C35: after an external command has been waited for, $? is "0" exactly
\* when execute returned Ok(true); a child killed by a signal does not leave
\* $? at "0" and, under errexit, does not end the REPL with code 0.
C35_ZeroIffSuccess ==
    (Executed /\ cmd.tag = "Ok" /\ cmd.kind = "General"
       /\ child.outcome \in {"exited", "signaled"})
        => /\ (Lookup(env, "?") = <<"0">>) <=> (result = Ok(TRUE))
           /\ child.outcome = "signaled"
                => /\ Lookup(env, "?") # <<"0">>
                   /\ errexit => ~(result.tag = "Err" /\ pc = "done" /\ exit_code = 0)

(***************************************************************************)
(* C36: set with several flags.                                            *)
(***************************************************************************)
\* C36: when set is given several option flags that its parser accepts,
\* every one of them is applied: -x enables xtrace and adds x to $-, -e
\* enables errexit and adds e to $-, -o ignoreeof enables ignoreeof.
C36_EveryFlagApplied ==
    [][(Dispatch("Set") /\ GetMatches(SetApp, cmd.args).ok
          /\ ~IsPresent(GetMatches(SetApp, cmd.args), "unset"))
         => LET m == GetMatches(SetApp, cmd.args) IN
            /\ IsPresent(m, "xtrace")
                 => xtrace' /\ "-" \in DOMAIN env' /\ Contains(env'["-"], "x")
            /\ IsPresent(m, "errexit")
                 => errexit' /\ "-" \in DOMAIN env' /\ Contains(env'["-"], "e")
            /\ (IsPresent(m, "option") /\ m.val["option"] = <<"ignoreeof">>)
                 => ignoreeof']_vars

(***************************************************************************)
(* C37: pushd followed by popd.                                            *)
(***************************************************************************)
\* The line before was pushd d, with d an existing directory other than the
\* working directory of that time, and popd has been executed after it.
C37_PushdThenPopd ==
    /\ Executed
    /\ cmd.tag = "Ok" /\ cmd.kind = "Popd"
    /\ prev.pushd.some
    /\ Len(prev.pushd.args) = 1
    /\ IsDir(prev.pushd.args[1], prev.pushd.cwd)
    /\ Canonical(prev.pushd.args[1], prev.pushd.cwd) # prev.pushd.cwd

\* C37 as stated: pushd d to an existing directory other than the current
\* one, followed by popd, restores the working directory and the directory
\* stack to what they were before the pushd.
C37_PushdPopdRestores ==
    C37_PushdThenPopd => cwd = prev.pushd.cwd /\ dir_stack = prev.pushd.stack

(***************************************************************************)
(* C38: a popd that cannot enter the directory popped.                     *)
(***************************************************************************)
\* The directory at the top of the stack no longer exists or cannot be
\* entered.
C38_CannotEnter ==
    /\ dir_stack # <<>>
    /\ \/ Canonical(dir_stack[Len(dir_stack)], cwd) = ""
       \/ Canonical(dir_stack[Len(dir_stack)], cwd) \in NoAccessDirs

\* C38: when popd cannot change into the directory at the top of the
\* stack, the directory stack, the working directory and $OLDPWD are
\* after the popd what they were before it.
C38_FailedPopdChangesNothing ==
    [][(Dispatch("Popd") /\ C38_CannotEnter)
         => /\ dir_stack' = dir_stack
            /\ cwd' = cwd
            /\ Lookup(env', "OLDPWD") = Lookup(env, "OLDPWD")]_vars

(***************************************************************************)
(* C39: the cache after a rescan.                                          *)
(***************************************************************************)
\* rehash, or hash -r, has been executed.
C39_Rescanned ==
    /\ Executed
    /\ cmd.tag = "Ok"
    /\ \/ cmd.kind = "Rehash"
       \/ /\ cmd.kind = "Hash"
          /\ GetMatches(HashApp, cmd.args).ok
          /\ IsPresent(GetMatches(HashApp, cmd.args), "rehash")

\* C39: after rehash or hash -r the cache holds exactly the executables of
\* the directories of the PATH of the session environment, as export has
\* set it: entries of before that are in none of them are gone.
C39_RehashFollowsSessionPath ==
    (C39_Rescanned /\ "PATH" \in DOMAIN env) => commands = PathScan(env["PATH"])

(***************************************************************************)
(* C40: bare references next to each other and next to punctuation.        *)
(***************************************************************************)
\* The end of the name that starts after position j: the last position of
\* the run of letters, digits and underscores.
RECURSIVE C40_NameEnd(_, _)
C40_NameEnd(s, j) ==
    IF j < Len(s) /\ Ch(s, j + 1) \in Letters \cup Digits \cup {"_"}
    THEN C40_NameEnd(s, j + 1) ELSE j

\* s from position i on, with every bare reference replaced by the value of
\* its name.
RECURSIVE C40_Each(_, _, _)
C40_Each(s, i, e) ==
    IF i > Len(s) THEN ""
    ELSE IF Ch(s, i) = "$"
         THEN LET j == C40_NameEnd(s, i)
                  T == SubSeq(s, i + 1, j)
              IN  (IF T \in DOMAIN e THEN e[T] ELSE SubSeq(s, i, j)) \o C40_Each(s, j + 1, e)
         ELSE Ch(s, i) \o C40_Each(s, i + 1, e)

\* Every "$" of s starts a bare reference to a key that is present.
C40_AllPresent(s, e) ==
    \A i \in 1..Len(s) :
        Ch(s, i) = "$" => SubSeq(s, i + 1, C40_NameEnd(s, i)) \in DOMAIN e

\* C40: in a line whose bare references all name keys that are present,
\* each of them is replaced by its value, also when it is directly followed
\* by another reference or by one of - ? # ! @ *.
C40_AdjacentReferencesSubstituted ==
    (/\ pc = "restored"
     /\ Contains(line, "$")
     /\ C40_AllPresent(Trim(line), env)
     /\ \A k \in DOMAIN env : ~Contains(env[k], "$"))
        => \A o \in OrdersFor(<<Trim(line)>>, env) :
              ReplaceVarsOrd(Trim(line), env, o) = C40_Each(Trim(line), 1, env)

====
